---- MODULE Spec2Model ----
(***************************************************************************)
(* OpenActa/Haystack: the in-memory store (Dictionary, Haybale, Haystalk), *)
(* bunch insertion and sort, search, the section codec and the disk        *)
(* writer, as state machines.                                              *)
(*                                                                         *)
(* Strings are kept in the state as TLA+ strings; every operation that     *)
(* looks inside a string (hashing, lower-casing, ordering, number parsing, *)
(* number formatting) works on its bytes, given by Chars.                  *)
(* uint32 all-ones patterns (0xffffffff, 0xfffffffe) are written as the    *)
(* two's complement numbers -1 and -2.                                     *)
(***************************************************************************)
EXTENDS Integers, Sequences, FiniteSets, TLC

VARIABLES
    tdict,      \* TestFindOrAddKeyhash: haystack.Dict of the test
    tcalls,     \* TestFindOrAddKeyhash: the calls made so far, <<key, slot, res>>
    bales,      \* every Haybale allocated so far; a *Haybale is an index into it
    stacks,     \* every Haystack allocated so far; a *Haystack is an index into it
    HaystackRoutines,   \* writer_cur_haystack, writer_cur_haybale
    config,     \* haystack_wait_maxsize, haybale_wait_minsize
    newhaybale_mutex,   \* TRUE while the mutex is held
    panicked,   \* TRUE once a panic has ended the program
    searched,   \* the last search and what it printed, op = "" for none
    disk,       \* the file the last Haystack.Mem2Disk returned, and what it encoded
    reader,     \* the Haystack Disk2Mem decodes into, and the last call made on it
    ingest,     \* the goroutine that calls InsertBunch, FlushHaystack, FlushHaybale, ShutDown
    writer,     \* the diskWriter goroutine: its position and its local variables
    datastore,  \* the files of datastore_dir
    aesgcm_nonce    \* the nonce the next encrypted section is sealed with

dictVars == <<tdict, tcalls>>

codecVars == <<disk, reader>>

routineVars == <<ingest, writer, datastore>>

libVars ==
    <<bales, stacks, HaystackRoutines, config, newhaybale_mutex, panicked, searched, disk,
      reader, ingest, writer, datastore, aesgcm_nonce>>

vars == <<tdict, tcalls, bales, stacks, HaystackRoutines, config, newhaybale_mutex, panicked,
          searched, disk, reader, ingest, writer, datastore, aesgcm_nonce>>

-----------------------------------------------------------------------------
(* Program constants *)

max_keylen == 255
hashtable_size == 16777216
haystalk_ofs_nil == -1
hash_skip == 101
hashkey_mask == 16777215
hashkey_invalid == -1

Timestamp_key == "_timestamp"

-----------------------------------------------------------------------------
(* Bounds of the model *)

MaxDictCalls == 3

\* Stalks in all Haybales together, and Haybales allocated
MaxStalks == 6
MaxBales == 2

-----------------------------------------------------------------------------
(* Strings as bytes *)

\* The bytes of every string literal the model uses
Chars(s) ==
    CASE s = "" -> <<>>
      [] s = "_timestamp" -> <<95,116,105,109,101,115,116,97,109,112>>
      [] s = "_Timestamp" -> <<95,84,105,109,101,115,116,97,109,112>>
      [] s = "foo" -> <<102,111,111>>
      [] s = "Foo" -> <<70,111,111>>
      [] s = "bar" -> <<98,97,114>>
      [] s = "dIMPLES" -> <<100,73,77,80,76,69,83>>
      [] s = "dimples" -> <<100,105,109,112,108,101,115>>
      [] s = "WAITS" -> <<87,65,73,84,83>>
      [] s = "waits" -> <<119,97,105,116,115>>
      [] s = "k" -> <<107>>
      [] s = "K" -> <<75>>
      [] s = "fbi" -> <<102,98,105>>
      [] s = "abc" -> <<97,98,99>>
      [] s = "ABC" -> <<65,66,67>>
      [] s = "b" -> <<98>>
      [] s = "B" -> <<66>>
      [] s = "7" -> <<55>>
      [] s = "12" -> <<49,50>>
      [] s = "1.5" -> <<49,46,53>>
      [] s = "2.5" -> <<50,46,53>>
      [] s = "NaN" -> <<78,97,78>>
      [] s = "[]" -> <<91,93>>
      [] s = "x" -> <<120>>
      [] s = "1970-01-01T00:00:00.000000001Z" -> <<49,57,55,48,45,48,49,45,48,49,84,48,48,58,48,48,58,48,48,46,48,48,48,48,48,48,48,48,49,90>>
      [] s = "1970-01-01T00:00:00.000000002Z" -> <<49,57,55,48,45,48,49,45,48,49,84,48,48,58,48,48,58,48,48,46,48,48,48,48,48,48,48,48,50,90>>
      [] s = "1970-01-01T00:00:00.000000003+0000" -> <<49,57,55,48,45,48,49,45,48,49,84,48,48,58,48,48,58,48,48,46,48,48,48,48,48,48,48,48,51,43,48,48,48,48>>
      [] s = "Abc" -> <<65,98,99>>
      [] s = "Fbi" -> <<70,98,105>>
      [] s = "1970-01-01T00:00:00.000000002+0000" -> <<49,57,55,48,45,48,49,45,48,49,84,48,48,58,48,48,58,48,48,46,48,48,48,48,48,48,48,48,50,43,48,48,48,48>>
      [] s = "1970-01-01T00:00:00Z" -> <<49,57,55,48,45,48,49,45,48,49,84,48,48,58,48,48,58,48,48,90>>
      [] s = "1969-12-31T23:59:59.999999999Z" -> <<49,57,54,57,45,49,50,45,51,49,84,50,51,58,53,57,58,53,57,46,57,57,57,57,57,57,57,57,57,90>>
      [] s = "yesterday" -> <<121,101,115,116,101,114,100,97,121>>

\* strings.ToLower on ASCII bytes
ToLowerByte(c) == IF c >= 65 /\ c <= 90 THEN c + 32 ELSE c

ToLower(cs) == [i \in 1..Len(cs) |-> ToLowerByte(cs[i])]

\* strings.EqualFold on ASCII bytes
EqualFold(a, b) == ToLower(a) = ToLower(b)

RECURSIVE BytesLess(_, _)
\* Go's < on strings: bytewise lexicographic
BytesLess(a, b) ==
    IF Len(b) = 0 THEN FALSE
    ELSE IF Len(a) = 0 THEN TRUE
    ELSE IF a[1] < b[1] THEN TRUE
    ELSE IF a[1] > b[1] THEN FALSE
    ELSE BytesLess(Tail(a), Tail(b))

-----------------------------------------------------------------------------
(* Dictionary *)

RECURSIVE XorBits(_, _, _)
\* a XOR b on the low n bits
XorBits(a, b, n) ==
    IF n = 0 THEN 0
    ELSE (((a % 2) + (b % 2)) % 2) + 2 * XorBits(a \div 2, b \div 2, n - 1)

\* One round of 32-bit FNV-1a on the hash <<high 16 bits, low 16 bits>>:
\* hash ^= b; hash *= 16777619 (= 2^24 + 403) modulo 2^32
FnvRound(h, b) ==
    LET lo1 == (h[2] - (h[2] % 256)) + XorBits(h[2] % 256, b, 8)
        p == lo1 * 403
    IN <<((h[1] * 403) + (p \div 65536) + ((lo1 % 256) * 256)) % 65536, p % 65536>>

RECURSIVE FnvSum(_, _)
FnvSum(h, cs) == IF Len(cs) = 0 THEN h ELSE FnvSum(FnvRound(h, cs[1]), Tail(cs))

\* fnv.New32a(); Write(s); Sum32() & hashkey_mask.  The offset basis is
\* 2166136261 = 0x811C9DC5.
findKeyhash(cs) ==
    LET h == FnvSum(<<33052, 40389>>, cs)
    IN ((h[1] % 256) * 65536 + h[2]) % (hashkey_mask + 1)

\* A Dictionary: dkey is the hash table with its nil slots left out,
\* dirty the set of slots whose dirty flag is set
EmptyDict == [num_dkeys |-> 0, dkey |-> << >>, dirty |-> {}]

\* The key comparison of KeyExists: both sides lower-cased
\* A comparison of the stored key as it was, without lower-casing it
KeyMatchExact(stored, ls) == Chars(stored) = ls

KeyMatch(stored, ls) == ToLower(Chars(stored)) = ls

RECURSIVE KeyProbe(_, _, _, _)
\* The probe of KeyExists from slot h after i skips: <<slot, found, FALSE>>,
\* or <<hashkey_invalid, FALSE, TRUE>> when it panics after a full sweep
KeyProbe(p, ls, h, i) ==
    IF h \notin DOMAIN p.dkey THEN <<h, FALSE, FALSE>>
    ELSE IF KeyMatch(p.dkey[h], ls) THEN <<h, TRUE, FALSE>>
    ELSE IF i >= hashtable_size THEN <<hashkey_invalid, FALSE, TRUE>>
    ELSE KeyProbe(p, ls, (h + hash_skip) % (hashkey_mask + 1), i + 1)

\* The keys the model uses, and findKeyhash of each, computed once
Keys ==
    {"", "_timestamp", "_Timestamp", "foo", "Foo", "bar", "dIMPLES", "dimples", "WAITS",
     "waits", "k", "K", "fbi", "b", "x"}

Keyhash == [s \in Keys |-> findKeyhash(ToLower(Chars(s)))]

KeyExists(p, s) == KeyProbe(p, ToLower(Chars(s)), Keyhash[s], 0)

\* The Dictionary after FindOrAddKeyhash(s)
FindOrAddDict(p, s) ==
    LET r == KeyExists(p, s)
    IN IF r[2] THEN p
       ELSE [num_dkeys |-> p.num_dkeys + 1,
             dkey |-> (r[1] :> s) @@ p.dkey,
             dirty |-> p.dirty \cup {r[1]}]

\* What FindOrAddKeyhash(s) returns: <<slot, TRUE>>
FindOrAddKeyhash(p, s) == <<KeyExists(p, s)[1], TRUE>>

-----------------------------------------------------------------------------
(* Values *)

valtype_int == 1
valtype_float == 2
valtype_string == 3

IsDigit(c) == c >= 48 /\ c <= 57

AllDigits(cs) == Len(cs) > 0 /\ \A i \in 1..Len(cs) : IsDigit(cs[i])

RECURSIVE DigitsVal(_)
DigitsVal(cs) ==
    IF Len(cs) = 0 THEN 0
    ELSE DigitsVal(SubSeq(cs, 1, Len(cs) - 1)) * 10 + (cs[Len(cs)] - 48)

HasSign(cs) == Len(cs) > 0 /\ cs[1] \in {43, 45}

Unsigned(cs) == IF HasSign(cs) THEN Tail(cs) ELSE cs

Signed(cs, n) == IF HasSign(cs) /\ cs[1] = 45 THEN 0 - n ELSE n

\* strconv.Atoi: an optional sign and decimal digits
AtoiOk(cs) == AllDigits(Unsigned(cs))

Atoi(cs) == Signed(cs, DigitsVal(Unsigned(cs)))

\* A float64 is kept as [nan, u]: u counts millionths (the six decimals of %f)
FloatUnit == 1000 * 1000

NaN == [nan |-> TRUE, u |-> 0]

Float(u) == [nan |-> FALSE, u |-> u]

DotAt(cs) == {i \in 1..Len(cs) : cs[i] = 46}

RECURSIVE Pow10(_)
Pow10(n) == IF n = 0 THEN 1 ELSE 10 * Pow10(n - 1)

\* strconv.ParseFloat on the forms the model's literals take: "nan" in any
\* letter case, and [sign]digits.digits with at most six decimals
IsNaNText(cs) == ToLower(cs) = <<110, 97, 110>>

IsDecimal(cs) ==
    LET u == Unsigned(cs)
    IN /\ Cardinality(DotAt(u)) = 1
       /\ LET d == CHOOSE i \in DotAt(u) : TRUE
          IN /\ AllDigits(SubSeq(u, 1, d - 1))
             /\ AllDigits(SubSeq(u, d + 1, Len(u)))
             /\ Len(u) - d <= 6

ParseFloatOk(cs) == IsNaNText(cs) \/ AllDigits(Unsigned(cs)) \/ IsDecimal(cs)

ParseFloat(cs) ==
    IF IsNaNText(cs) THEN NaN
    ELSE IF AllDigits(Unsigned(cs)) THEN Float(Signed(cs, DigitsVal(Unsigned(cs)) * FloatUnit))
    ELSE LET u == Unsigned(cs)
             d == CHOOSE i \in DotAt(u) : TRUE
             frac == SubSeq(u, d + 1, Len(u))
         IN Float(Signed(cs, DigitsVal(SubSeq(u, 1, d - 1)) * FloatUnit
                             + DigitsVal(frac) * Pow10(6 - Len(frac))))

\* float64 > and <: false whenever a side is NaN
FloatGt(a, b) == ~a.nan /\ ~b.nan /\ a.u > b.u

FloatLt(a, b) == ~a.nan /\ ~b.nan /\ a.u < b.u

\* Val: the struct with its three value slots; stringval "" stands for nil
\* when valtype is not string
ZeroVal == [valtype |-> 0, intval |-> 0, floatval |-> Float(0), stringval |-> ""]

SetInt(i) == [ZeroVal EXCEPT !.valtype = valtype_int, !.intval = i]

SetFloat(f) == [ZeroVal EXCEPT !.valtype = valtype_float, !.floatval = f]

SetString(s) == [ZeroVal EXCEPT !.valtype = valtype_string, !.stringval = s]

GetInt(v) == IF v.valtype # valtype_int THEN 0 ELSE v.intval

GetFloat(v) == IF v.valtype # valtype_float THEN Float(0) ELSE v.floatval

\* The int / float / string rule of SearchKeyVal and SearchKeyValArray
ParseSearchVal(v) ==
    IF AtoiOk(Chars(v)) THEN SetInt(Atoi(Chars(v)))
    ELSE IF ParseFloatOk(Chars(v)) THEN SetFloat(ParseFloat(Chars(v)))
    ELSE SetString(v)

\* The rule of insertStalk: as above, and "[]" and "map[]" become ""
ParseInsertVal(v) ==
    IF AtoiOk(Chars(v)) THEN SetInt(Atoi(Chars(v)))
    ELSE IF ParseFloatOk(Chars(v)) THEN SetFloat(ParseFloat(Chars(v)))
    ELSE IF v = "[]" \/ v = "map[]" THEN SetString("")
    ELSE SetString(v)

RECURSIVE NatDigits(_)
NatDigits(n) == IF n < 10 THEN <<48 + n>> ELSE Append(NatDigits(n \div 10), 48 + (n % 10))

RECURSIVE PadDigits(_, _)
PadDigits(n, w) == IF w = 0 THEN << >> ELSE Append(PadDigits(n \div 10, w - 1), 48 + (n % 10))

\* fmt.Sprintf("%d", i)
FormatD(i) == IF i < 0 THEN <<45>> \o NatDigits(0 - i) ELSE NatDigits(i)

\* fmt.Sprintf("%f", f): six decimals
FormatF(f) ==
    IF f.nan THEN <<78, 97, 78>>
    ELSE LET m == IF f.u < 0 THEN 0 - f.u ELSE f.u
         IN (IF f.u < 0 THEN <<45>> ELSE << >>)
            \o NatDigits(m \div FloatUnit) \o <<46>> \o PadDigits(m % FloatUnit, 6)

-----------------------------------------------------------------------------
(* Timestamps: time.Parse and UnixNano *)

Num2(cs, i) == (cs[i] - 48) * 10 + (cs[i + 1] - 48)

\* The date and clock part shared by both layouts: 2006-01-02T15:04:05
ClockOk(cs) ==
    /\ Len(cs) >= 19
    /\ \A i \in {1, 2, 3, 4, 6, 7, 9, 10, 12, 13, 15, 16, 18, 19} : IsDigit(cs[i])
    /\ cs[5] = 45 /\ cs[8] = 45 /\ cs[11] = 84 /\ cs[14] = 58 /\ cs[17] = 58
    /\ Num2(cs, 6) \in 1..12
    /\ Num2(cs, 9) \in 1..31
    /\ Num2(cs, 12) < 24 /\ Num2(cs, 15) < 60 /\ Num2(cs, 18) < 60

\* The optional fraction .999999999: a dot and the digits that follow it
FracLen(cs) ==
    IF Len(cs) >= 21 /\ cs[20] = 46 /\ IsDigit(cs[21])
    THEN 1 + Cardinality({n \in 1..(Len(cs) - 20) :
                            \A i \in 21..(20 + n) : IsDigit(cs[i])})
    ELSE 0

FracNanos(cs) ==
    IF FracLen(cs) = 0 THEN 0
    ELSE DigitsVal(SubSeq(cs, 21, 19 + FracLen(cs))) * Pow10(10 - FracLen(cs))

ZoneText(cs) == SubSeq(cs, 20 + FracLen(cs), Len(cs))

\* Z07:00 of RFC3339Nano: "Z", or a sign, hours, a colon and minutes
ZoneOk(z) ==
    \/ z = <<90>>
    \/ /\ Len(z) = 6
       /\ z[1] \in {43, 45}
       /\ z[4] = 58
       /\ \A i \in {2, 3, 5, 6} : IsDigit(z[i])
       /\ Num2(z, 2) < 24 /\ Num2(z, 5) < 60

ZoneSeconds(z) ==
    IF z = <<90>> THEN 0
    ELSE LET secs == Num2(z, 2) * 3600 + Num2(z, 5) * 60
         IN IF z[1] = 45 THEN 0 - secs ELSE secs

\* Days from 1970-01-01 to the civil date y-m-d
DaysFromCivil(y, m, d) ==
    LET yy == IF m <= 2 THEN y - 1 ELSE y
        era == yy \div 400
        yoe == yy - era * 400
        mp == IF m > 2 THEN m - 3 ELSE m + 9
        doy == ((153 * mp + 2) \div 5) + d - 1
        doe == yoe * 365 + (yoe \div 4) - (yoe \div 100) + doy
    IN era * 146097 + doe - 719468

ClockSeconds(cs) ==
    DaysFromCivil(DigitsVal(SubSeq(cs, 1, 4)), Num2(cs, 6), Num2(cs, 9)) * 86400
        + Num2(cs, 12) * 3600 + Num2(cs, 15) * 60 + Num2(cs, 18)

\* time.Parse(time.RFC3339Nano, vs)
ParseRFC3339NanoOk(cs) == ClockOk(cs) /\ FracLen(cs) <= 10 /\ ZoneOk(ZoneText(cs))

\* time.Parse("2006-01-02T15:04:05.999999999+0000", vs): +0000 is literal text
ParseAltOk(cs) == ClockOk(cs) /\ FracLen(cs) <= 10 /\ ZoneText(cs) = <<43, 48, 48, 48, 48>>

TimeParseOk(vs) == ParseRFC3339NanoOk(Chars(vs)) \/ ParseAltOk(Chars(vs))

\* t.UnixNano() of the time parsed by the first layout that accepts vs
UnixNano(vs) ==
    LET cs == Chars(vs)
        zone == IF ParseRFC3339NanoOk(cs) THEN ZoneSeconds(ZoneText(cs)) ELSE 0
    IN (ClockSeconds(cs) - zone) * (1000 * 1000 * 1000) + FracNanos(cs)

-----------------------------------------------------------------------------
(* Haystalk *)

Haystalk(dkey, val, self_ofs, first_ofs, next_ofs) ==
    [dkey |-> dkey, val |-> val, self_ofs |-> self_ofs,
     first_ofs |-> first_ofs, next_ofs |-> next_ofs]

\* The string branch of Compare: EqualFold, then the lower-cased strings
CompareString(sv1, sv2) ==
    IF EqualFold(Chars(sv1), Chars(sv2)) THEN 0
    ELSE IF BytesLess(ToLower(Chars(sv2)), ToLower(Chars(sv1))) THEN 1
    ELSE IF BytesLess(ToLower(Chars(sv1)), ToLower(Chars(sv2))) THEN -1
    ELSE 0

\* Haystalk.Compare: dkey, then valtype, then value; "panic" for a valtype
\* that is none of the three
Compare(p, hv) ==
    IF p.dkey > hv.dkey THEN 1
    ELSE IF p.dkey < hv.dkey THEN -1
    ELSE IF p.val.valtype > hv.val.valtype THEN 1
    ELSE IF p.val.valtype < hv.val.valtype THEN -1
    ELSE CASE p.val.valtype = valtype_int ->
                 IF GetInt(p.val) > GetInt(hv.val) THEN 1
                 ELSE IF GetInt(p.val) < GetInt(hv.val) THEN -1 ELSE 0
           [] p.val.valtype = valtype_float ->
                 IF FloatGt(GetFloat(p.val), GetFloat(hv.val)) THEN 1
                 ELSE IF FloatLt(GetFloat(p.val), GetFloat(hv.val)) THEN -1 ELSE 0
           [] p.val.valtype = valtype_string ->
                 CompareString(p.val.stringval, hv.val.stringval)
           [] OTHER -> 2

-----------------------------------------------------------------------------
(* Haybale and Haystack *)

\* num_haystalks is Len(haystalk); offsets count from 0 as in the program
EmptyBale ==
    [haystalk |-> << >>, Memsize |-> 0, time_first |-> 0, time_last |-> 0,
     is_sorted_immutable |-> FALSE]

EmptyStack == [Dict |-> EmptyDict, Haybale |-> << >>, memsize |-> 0]

StalkAt(hb, ofs) == hb.haystalk[ofs + 1]

InRange(hb, ofs) == ofs \in 0..(Len(hb.haystalk) - 1)

\* Following next_ofs from ofs meets next_ofs = nil within hops hops
RECURSIVE ChainEnds(_, _, _)
ChainEnds(hb, ofs, hops) ==
    IF ~InRange(hb, ofs) THEN FALSE
    ELSE IF StalkAt(hb, ofs).next_ofs = haystalk_ofs_nil THEN TRUE
    ELSE IF hops = 0 THEN FALSE
    ELSE ChainEnds(hb, StalkAt(hb, ofs).next_ofs, hops - 1)

\* The offsets visited from ofs along next_ofs in at most hops hops
RECURSIVE ChainOf(_, _, _)
ChainOf(hb, ofs, hops) ==
    IF ~InRange(hb, ofs) THEN {}
    ELSE IF StalkAt(hb, ofs).next_ofs = haystalk_ofs_nil \/ hops = 0 THEN {ofs}
    ELSE {ofs} \cup ChainOf(hb, StalkAt(hb, ofs).next_ofs, hops - 1)

StalkSize(val) ==
    37 + (IF val.valtype = valtype_string THEN 2 + Len(Chars(val.stringval)) ELSE 0)

\* insertStalk on Haybale b of the heap B with the Dictionary of Haystack h of
\* the heap S: the two heaps after the call, and the position returned
insertStalk(B, S, b, h, k, v) ==
    LET r == KeyExists(S[h].Dict, k)
        val == ParseInsertVal(v)
        pos == Len(B[b].haystalk)
        newstalk == Haystalk(r[1], val, pos, haystalk_ofs_nil, haystalk_ofs_nil)
    IN [B |-> [B EXCEPT ![b].haystalk = Append(@, newstalk),
                        ![b].Memsize = @ + StalkSize(val)],
        S |-> [S EXCEPT ![h].Dict = FindOrAddDict(@, k),
                        ![h].memsize = @ + StalkSize(val)],
        pos |-> pos]

\* The time_first / time_last update of InsertBunch
UpdateTimes(hb, ts) ==
    LET tf == IF hb.time_first = 0 \/ ts < hb.time_first THEN ts ELSE hb.time_first
        tl == IF ts > hb.time_last THEN ts ELSE hb.time_last
    IN [hb EXCEPT !.time_first = tf, !.time_last = tl]

\* The loop of InsertBunch over the keys of flatmap, in the order the map
\* iteration yields them
RECURSIVE InsertLoop(_, _, _, _, _, _, _, _)
InsertLoop(B, S, b, h, flatmap, order, first, prev) ==
    IF order = << >> THEN [B |-> B, S |-> S, prev |-> prev, panic |-> FALSE]
    ELSE LET k == Head(order)
         IN IF k = Timestamp_key \/ Len(Chars(k)) = 0
            THEN InsertLoop(B, S, b, h, flatmap, Tail(order), first, prev)
            ELSE IF Len(Chars(k)) > max_keylen
            THEN [B |-> B, S |-> S, prev |-> prev, panic |-> TRUE]
            ELSE LET r == insertStalk(B, S, b, h, k, flatmap[k])
                     B2 == [r.B EXCEPT ![b].haystalk[r.pos + 1].first_ofs = first,
                                       ![b].haystalk[r.pos + 1].next_ofs = prev]
                 IN InsertLoop(B2, r.S, b, h, flatmap, Tail(order), first, r.pos)

-----------------------------------------------------------------------------
(* SortBale *)

Swap(hs, i, j) == [hs EXCEPT ![i] = hs[j], ![j] = hs[i]]

\* sort.Slice on a slice of at most 12 elements is an insertion sort with
\* less(i, j) = haystalk[i].Compare(*haystalk[j]) < 0
Less(hs, i, j) == Compare(hs[i], hs[j]) < 0

RECURSIVE InsertionInner(_, _)
InsertionInner(hs, j) ==
    IF j > 1 /\ Less(hs, j, j - 1) THEN InsertionInner(Swap(hs, j, j - 1), j - 1) ELSE hs

RECURSIVE InsertionSort(_, _)
InsertionSort(hs, i) ==
    IF i > Len(hs) THEN hs ELSE InsertionSort(InsertionInner(hs, i), i + 1)

\* The map as make() leaves it, with no entry filled in
NewOldMapUnfilled(hs) == [o \in 0..(Len(hs) - 1) |-> 0]

\* newold_map[old position] = new position; the last writer wins, and an
\* entry that is never written stays 0
NewOldMap(hs) ==
    [o \in 0..(Len(hs) - 1) |->
        LET at == {i \in 0..(Len(hs) - 1) : hs[i + 1].self_ofs = o}
        IN IF at = {} THEN 0 ELSE CHOOSE i \in at : \A j \in at : j <= i]

\* An offset left as it was before the sort
KeepOfs(map, ofs) == ofs

Remap(map, ofs) == IF ofs = haystalk_ofs_nil THEN ofs ELSE map[ofs]

\* Positions of the string stalks that hold the same string as the string
\* stalk before them; each gives up its own copy
DupStrings(hs) ==
    {i \in 1..Len(hs) :
        /\ hs[i].val.valtype = valtype_string
        /\ \E j \in 1..(i - 1) :
              /\ hs[j].val.valtype = valtype_string
              /\ \A m \in (j + 1)..(i - 1) : hs[m].val.valtype # valtype_string
              /\ hs[j].val.stringval = hs[i].val.stringval}

RECURSIVE SumLen(_, _)
SumLen(hs, idx) ==
    IF idx = {} THEN 0
    ELSE LET i == CHOOSE x \in idx : TRUE
         IN Len(Chars(hs[i].val.stringval)) + SumLen(hs, idx \ {i})

SortBale(hb) ==
    IF hb.is_sorted_immutable THEN hb
    ELSE LET sorted == InsertionSort(hb.haystalk, 2)
             map == NewOldMap(sorted)
             fixed == [i \in 1..Len(sorted) |->
                          [sorted[i] EXCEPT !.first_ofs = Remap(map, @),
                                            !.next_ofs = Remap(map, @)]]
         IN [hb EXCEPT !.haystalk = fixed,
                       !.Memsize = @ - SumLen(sorted, DupStrings(sorted)),
                       !.is_sorted_immutable = TRUE]

-----------------------------------------------------------------------------
(* Search *)

\* sort.Search(n, f) with f given as fs[0..n-1]: binary search on [i, j)
RECURSIVE SortSearch(_, _, _)
SortSearch(fs, i, j) ==
    IF i < j
    THEN LET h == (i + j) \div 2
         IN IF ~fs[h] THEN SortSearch(fs, h + 1, j) ELSE SortSearch(fs, i, h)
    ELSE i

\* float64 >=: false whenever a side is NaN
FloatGe(a, b) == ~a.nan /\ ~b.nan /\ a.u >= b.u

\* The closure SearchKeyVal hands to sort.Search
SearchPred(hsx, dkey, val) ==
    IF hsx.dkey > dkey THEN TRUE
    ELSE IF hsx.dkey < dkey THEN FALSE
    ELSE IF hsx.val.valtype > val.valtype THEN TRUE
    ELSE IF hsx.val.valtype < val.valtype THEN FALSE
    ELSE CASE hsx.val.valtype = valtype_int -> GetInt(hsx.val) >= val.intval
           [] hsx.val.valtype = valtype_float -> FloatGe(GetFloat(hsx.val), val.floatval)
           [] hsx.val.valtype = valtype_string ->
                 ~BytesLess(Chars(hsx.val.stringval), Chars(val.stringval))
           [] OTHER -> TRUE

\* The text of a stalk's value: %d, %f or the string itself
StalkText(st) ==
    CASE st.val.valtype = valtype_int -> FormatD(GetInt(st.val))
      [] st.val.valtype = valtype_float -> FormatF(GetFloat(st.val))
      [] st.val.valtype = valtype_string -> Chars(st.val.stringval)
      [] OTHER -> << >>

\* The offsets a walk from ofs along next_ofs visits, in order
RECURSIVE ChainSeq(_, _, _)
ChainSeq(hb, ofs, hops) ==
    IF ofs = haystalk_ofs_nil \/ ~InRange(hb, ofs) \/ hops = 0 THEN << >>
    ELSE <<ofs>> \o ChainSeq(hb, StalkAt(hb, ofs).next_ofs, hops - 1)

\* bunch[*p.Dict.dkey[dkey]] = text, for the stalks of walk in order
RECURSIVE BunchMap(_, _, _)
BunchMap(d, hb, walk) ==
    IF walk = << >> THEN << >>
    ELSE LET st == StalkAt(hb, walk[Len(walk)])
         IN (d.dkey[st.dkey] :> StalkText(st)) @@ BunchMap(d, hb, SubSeq(walk, 1, Len(walk) - 1))

\* One printed bunch; bale and first say which bunch of the Haystack it is
Emit(d, hb, i, j) ==
    [bale |-> i, first |-> StalkAt(hb, j).first_ofs,
     bunch |-> BunchMap(d, hb, ChainSeq(hb, StalkAt(hb, j).first_ofs, Len(hb.haystalk)))]

\* The for loop of SearchKeyVal in Haybale number i, from stalk j on
RECURSIVE ScanKeyVal(_, _, _, _, _, _, _)
ScanKeyVal(d, hb, i, dkey, val, v, j) ==
    IF j < Len(hb.haystalk) /\ StalkAt(hb, j).dkey = dkey
         /\ StalkAt(hb, j).val.valtype = val.valtype
    THEN IF Chars(v) # StalkText(StalkAt(hb, j)) THEN << >>
         ELSE <<Emit(d, hb, i, j)>> \o ScanKeyVal(d, hb, i, dkey, val, v, j + 1)
    ELSE << >>

\* The loop of SearchKeyVal over the Haybales from number i on
RECURSIVE SearchBales(_, _, _, _, _, _, _)
SearchBales(B, hs, i, dkey, val, v, out) ==
    IF i > Len(hs.Haybale) THEN [out |-> out, panic |-> FALSE]
    ELSE LET hb == B[hs.Haybale[i]]
             fs == [x \in 0..(Len(hb.haystalk) - 1) |-> SearchPred(StalkAt(hb, x), dkey, val)]
             j == SortSearch(fs, 0, Len(hb.haystalk))
         IN IF ~hb.is_sorted_immutable THEN [out |-> out, panic |-> TRUE]
            ELSE SearchBales(B, hs, i + 1, dkey, val, v,
                             out \o ScanKeyVal(hs.Dict, hb, i - 1, dkey, val, v, j))

\* Haystack.SearchKeyVal: what it prints, and whether it panicked
SearchKeyVal(B, hs, ks, v) ==
    LET r == KeyExists(hs.Dict, ks)
    IN IF ~r[2] THEN [out |-> << >>, panic |-> FALSE]
       ELSE SearchBales(B, hs, 1, r[1], ParseSearchVal(v), v, << >>)

\* The conditions of SearchKeyValArray as search stalks, in the order the
\* map iteration yields them
BuildHv(d, kv_array, order) ==
    [n \in 1..Len(order) |->
        Haystalk(KeyExists(d, order[n])[1], ParseSearchVal(kv_array[order[n]]), 0, 0, 0)]

AllKeysFound(d, kv_array) == \A ks \in DOMAIN kv_array : KeyExists(d, ks)[2]

\* The bunch of stalk j holds a stalk that compares equal to cur_hv
CondFound(hb, j, cur_hv) ==
    \E n \in DOMAIN ChainSeq(hb, StalkAt(hb, j).first_ofs, Len(hb.haystalk)) :
        Compare(StalkAt(hb, ChainSeq(hb, StalkAt(hb, j).first_ofs, Len(hb.haystalk))[n]),
                cur_hv) = 0

\* The haystalk_loop of SearchKeyValArray from stalk j on; a candidate that
\* fails a further condition ends the loop (skip = FALSE, break
\* haystalk_loop) or is passed over (skip = TRUE, continue haystalk_loop)
RECURSIVE ScanArray(_, _, _, _, _, _)
ScanArray(d, hb, i, hv, j, skip) ==
    IF j < Len(hb.haystalk) /\ Compare(StalkAt(hb, j), hv[1]) = 0
    THEN IF \A k \in 2..Len(hv) : CondFound(hb, j, hv[k])
         THEN <<Emit(d, hb, i, j)>> \o ScanArray(d, hb, i, hv, j + 1, skip)
         ELSE IF skip THEN ScanArray(d, hb, i, hv, j + 1, skip)
         ELSE << >>
    ELSE << >>

\* The loop over the Haybales from number i on; fs is the closure handed
\* to sort.Search, hv[0].Compare(x) <= 0 in the first version and
\* x.Compare(hv[0]) >= 0 in the second
RECURSIVE SearchArrayBales(_, _, _, _, _, _)
SearchArrayBales(B, hs, i, hv, second, out) ==
    IF i > Len(hs.Haybale) THEN out
    ELSE LET hb == B[hs.Haybale[i]]
             fs == [x \in 0..(Len(hb.haystalk) - 1) |->
                      IF second THEN Compare(StalkAt(hb, x), hv[1]) >= 0
                      ELSE Compare(hv[1], StalkAt(hb, x)) <= 0]
             j == SortSearch(fs, 0, Len(hb.haystalk))
         IN SearchArrayBales(B, hs, i + 1, hv, second,
                             out \o ScanArray(hs.Dict, hb, i - 1, hv, j, second))

\* SearchKeyValArray, first version: the debug print dereferences
\* hv[i].val.GetString(), which is nil for an int or float condition
SearchKeyValArray1(B, hs, kv_array, order) ==
    LET hv == BuildHv(hs.Dict, kv_array, order)
    IN IF ~AllKeysFound(hs.Dict, kv_array) THEN [out |-> << >>, panic |-> FALSE]
       ELSE IF \E n \in DOMAIN hv : hv[n].val.valtype # valtype_string
       THEN [out |-> << >>, panic |-> TRUE]
       ELSE [out |-> SearchArrayBales(B, hs, 1, hv, FALSE, << >>), panic |-> FALSE]

\* SearchKeyValArray, second version
SearchKeyValArray2(B, hs, kv_array, order) ==
    LET hv == BuildHv(hs.Dict, kv_array, order)
    IN IF ~AllKeysFound(hs.Dict, kv_array) THEN [out |-> << >>, panic |-> FALSE]
       ELSE [out |-> SearchArrayBales(B, hs, 1, hv, TRUE, << >>), panic |-> FALSE]

-----------------------------------------------------------------------------
(* The ingest side: StartUp, newHaybale, InsertBunch, SortBale *)

diskwriter_nop == 0
diskwriter_flush_haybale == 1
diskwriter_flush_haystack == 2
diskwriter_close == 3

\* SetConfigDefaults: 128M and 16M
DefaultConfig ==
    [haystack_wait_maxsize |-> 128 * 1024 * 1024,
     haybale_wait_minsize |-> 16 * 1024 * 1024]

\* newHaybale on the heaps: a fresh Haybale becomes writer_cur_haybale and is
\* appended to the Haybale list of writer_cur_haystack
newHaybaleB(B) == Append(B, EmptyBale)

newHaybaleS(B, S, h) == [S EXCEPT ![h].Haybale = Append(@, Len(B) + 1)]

NoSearch == [op |-> "", kv_array |-> << >>, out |-> << >>]

\* No Haystack.Mem2Disk call has returned yet
NoFile == [written |-> FALSE, data |-> << >>, Dict |-> EmptyDict, Haybale |-> << >>]

\* The Haystack of a reading process, on which no Disk2Mem call has been made
NoRead ==
    [called |-> FALSE, data |-> << >>, before |-> EmptyStack, hs |-> EmptyStack, err |-> "",
     panic |-> FALSE]

aesgcm_nonce_byte_len == 12

\* The nonce init() draws from rand.Reader
NonceStart == <<254, 255, 0, 0, 0, 0, 0, 0, 0, 0, 0, 0>>

\* The calling goroutine between two calls of the package; inserting says that
\* it is inside InsertBunch, keys are the keys of the flatmap of that call
IdleIngest ==
    [pc |-> "idle", has_timestamp |-> FALSE, vs |-> "", todo |-> << >>, first |-> 0,
     prev |-> haystalk_ofs_nil, recv |-> 0, recvS |-> 0, pos |-> 0, send |-> << >>,
     closing |-> FALSE, sent |-> 0, inserting |-> FALSE, home |-> 0, keys |-> {}]

\* diskWriter blocked in the receive from diskwriter_ch; seen keeps, for the
\* command diskWriter works on, whether writer_cur_haybale held stalks when the
\* command was received
IdleWriter ==
    [pc |-> "receive", cmd |-> diskwriter_nop, i |-> 0, n |-> 0, time_first |-> 0,
     time_last |-> 0, seen |-> FALSE]

\* datastore_dir and catalogue_dir with no file in them: iname is what
\* diskWriter wrote to the file it has open, stale the length of a file that an
\* earlier failed rename left under diskwriter_iname, files the renamed files,
\* catalogue the .hsc files, err the error writeHaystackTrailer returned last
NoFiles ==
    [iname |-> << >>, last_dict_ofs |-> 0, stale |-> 0, files |-> << >>, catalogue |-> << >>,
     err |-> ""]

\* StartUp after ConfigureVariables has read the configuration cfg:
\* newHaystack, which ends with newHaybale, and go diskWriter()
StartUp(cfg) ==
    /\ bales = newHaybaleB(<< >>)
    /\ stacks = newHaybaleS(<< >>, <<EmptyStack>>, 1)
    /\ HaystackRoutines = [writer_cur_haystack |-> 1, writer_cur_haybale |-> 1,
                           writer_cur_fp |-> FALSE, writer_prev_ofs |-> 0]
    /\ ingest = IdleIngest
    /\ writer = IdleWriter
    /\ datastore = NoFiles
    /\ aesgcm_nonce = NonceStart
    /\ config = cfg
    /\ newhaybale_mutex = FALSE
    /\ panicked = FALSE
    /\ searched = NoSearch
    /\ disk = NoFile
    /\ reader = NoRead

InitRoutines == StartUp(DefaultConfig)

\* The thresholds compared without the tests for 0
FlushAlways(B, S, hr) ==
    IF S[hr.writer_cur_haystack].memsize >= config.haystack_wait_maxsize
    THEN diskwriter_flush_haystack
    ELSE IF B[hr.writer_cur_haybale].Memsize >= config.haybale_wait_minsize
    THEN diskwriter_flush_haybale
    ELSE diskwriter_nop

\* The command InsertBunch sends after unlocking, diskwriter_nop for none
FlushCommand(B, S, hr) ==
    IF config.haystack_wait_maxsize > 0
         /\ S[hr.writer_cur_haystack].memsize >= config.haystack_wait_maxsize
    THEN diskwriter_flush_haystack
    ELSE IF config.haybale_wait_minsize > 0
              /\ B[hr.writer_cur_haybale].Memsize >= config.haybale_wait_minsize
    THEN diskwriter_flush_haybale
    ELSE diskwriter_nop

TotalStalks(B, n) == Cardinality({<<b, i>> \in (1..Len(B)) \X (1..n) : i <= Len(B[b].haystalk)})

\* The orders in which a map iteration can yield the keys of flatmap
Orders(flatmap) ==
    {o \in [1..Cardinality(DOMAIN flatmap) -> DOMAIN flatmap] :
        \A i, j \in DOMAIN o : i # j => o[i] # o[j]}

\* InsertBunch as one call with no other goroutine running
InsertBunch(flatmap, order) ==
    LET b == HaystackRoutines.writer_cur_haybale
        h == HaystackRoutines.writer_cur_haystack
    IN /\ ~panicked
       /\ TotalStalks(bales, MaxStalks) + Cardinality(DOMAIN flatmap) <= MaxStalks
       /\ IF bales[b].is_sorted_immutable
          THEN UNCHANGED <<bales, stacks, newhaybale_mutex, panicked>>
          ELSE /\ ~newhaybale_mutex
               /\ IF Timestamp_key \notin DOMAIN flatmap
                  THEN /\ newhaybale_mutex' = TRUE
                       /\ UNCHANGED <<bales, stacks, panicked>>
                  ELSE LET vs == flatmap[Timestamp_key]
                           r1 == insertStalk(bales, stacks, b, h, Timestamp_key, vs)
                           first == r1.pos
                           B1 == [r1.B EXCEPT ![b].haystalk[first + 1].first_ofs = first]
                           B2 == [B1 EXCEPT ![b] = UpdateTimes(@, UnixNano(vs))]
                           r2 == InsertLoop(B2, r1.S, b, h, flatmap, order, first, haystalk_ofs_nil)
                           B3 == [r2.B EXCEPT ![b].haystalk[first + 1].next_ofs = r2.prev]
                       IN IF ~TimeParseOk(vs)
                          THEN /\ bales' = B1
                               /\ stacks' = r1.S
                               /\ newhaybale_mutex' = TRUE
                               /\ panicked' = TRUE
                          ELSE IF r2.panic
                          THEN /\ bales' = r2.B
                               /\ stacks' = r2.S
                               /\ newhaybale_mutex' = TRUE
                               /\ panicked' = TRUE
                          ELSE /\ bales' = B3
                               /\ stacks' = r2.S
                               /\ newhaybale_mutex' = FALSE
                               /\ FlushCommand(B3, r2.S, HaystackRoutines) = diskwriter_nop
                               /\ UNCHANGED panicked
       /\ searched' = NoSearch
       /\ UNCHANGED <<HaystackRoutines, config, dictVars, aesgcm_nonce, codecVars, routineVars>>

\* newHaybale()
NewHaybale ==
    /\ ~panicked
    /\ Len(bales) < MaxBales
    /\ bales' = newHaybaleB(bales)
    /\ stacks' = newHaybaleS(bales, stacks, HaystackRoutines.writer_cur_haystack)
    /\ HaystackRoutines' = [HaystackRoutines EXCEPT !.writer_cur_haybale = Len(bales) + 1]
    /\ searched' = NoSearch
    /\ UNCHANGED <<config, newhaybale_mutex, panicked,
                   dictVars, aesgcm_nonce, codecVars, routineVars>>

\* Haybale[b].SortBale()
SortBaleCall(b) ==
    /\ ~panicked
    /\ ~bales[b].is_sorted_immutable
    /\ bales' = [bales EXCEPT ![b] = SortBale(@)]
    /\ searched' = NoSearch
    /\ UNCHANGED <<stacks, HaystackRoutines, config, newhaybale_mutex, panicked,
                   dictVars, aesgcm_nonce, codecVars, routineVars>>

CurStack == stacks[HaystackRoutines.writer_cur_haystack]

\* A search call: op names the function called, res is its result
SearchCall(op, kv_array, res) ==
    /\ ~panicked
    /\ searched' = [op |-> op, kv_array |-> kv_array, out |-> res.out]
    /\ panicked' = res.panic
    /\ UNCHANGED <<bales, stacks, HaystackRoutines, config, newhaybale_mutex,
                   dictVars, aesgcm_nonce, codecVars, routineVars>>

SearchOne(ks, v) ==
    SearchCall("SearchKeyVal", ks :> v, SearchKeyVal(bales, CurStack, ks, v))

SearchAnd1(kv_array, order) ==
    SearchCall("SearchKeyValArray1", kv_array,
               SearchKeyValArray1(bales, CurStack, kv_array, order))

SearchAnd2(kv_array, order) ==
    SearchCall("SearchKeyValArray2", kv_array,
               SearchKeyValArray2(bales, CurStack, kv_array, order))

TS1 == "1970-01-01T00:00:00.000000001Z"
TS2 == "1970-01-01T00:00:00.000000002Z"
TS3 == "1970-01-01T00:00:00.000000003+0000"

\* The flattened records offered to InsertBunch
Records ==
    { (Timestamp_key :> TS1) @@ ("k" :> "2.5"),
      (Timestamp_key :> TS2) @@ ("k" :> "NaN"),
      (Timestamp_key :> TS3) @@ ("k" :> "1.5"),
      (Timestamp_key :> TS1) @@ ("_Timestamp" :> "x"),
      (Timestamp_key :> TS2) @@ ("k" :> "abc") @@ ("fbi" :> "x"),
      (Timestamp_key :> TS3) @@ ("K" :> "ABC") @@ ("fbi" :> "B"),
      ("k" :> "abc"),
      (Timestamp_key :> "yesterday") @@ ("k" :> "7") }

\* The key and value pairs offered to SearchKeyVal
OneQueries == {<<"k", "abc">>, <<"K", "ABC">>, <<"k", "7">>, <<"k", "1.5">>, <<"x", "x">>}

\* The conditions offered to SearchKeyValArray
AndQueries ==
    { ("k" :> "abc") @@ ("fbi" :> "B"),
      ("k" :> "abc"),
      ("k" :> "1.5") }

InitLib ==
    /\ tdict = EmptyDict
    /\ tcalls = << >>
    /\ InitRoutines

NextLib ==
    \/ \E flatmap \in Records : \E order \in Orders(flatmap) : InsertBunch(flatmap, order)
    \/ NewHaybale
    \/ \E b \in 1..Len(bales) : SortBaleCall(b)

SpecLib == InitLib /\ [][NextLib]_vars

\* The records of the searched Haystack
SearchRecords ==
    { (Timestamp_key :> TS1) @@ ("k" :> "1.5"),
      (Timestamp_key :> TS2) @@ ("k" :> "2.5") @@ ("K" :> "NaN"),
      (Timestamp_key :> TS2) @@ ("k" :> "abc") @@ ("fbi" :> "x"),
      (Timestamp_key :> TS3) @@ ("K" :> "ABC") @@ ("fbi" :> "B"),
      (Timestamp_key :> TS1) @@ ("k" :> "7") }

NextSearch ==
    \/ \E flatmap \in SearchRecords : \E order \in Orders(flatmap) : InsertBunch(flatmap, order)
    \/ NewHaybale
    \/ \E b \in 1..Len(bales) : SortBaleCall(b)
    \/ \E q \in OneQueries : SearchOne(q[1], q[2])
    \/ \E kv_array \in AndQueries : \E order \in Orders(kv_array) : SearchAnd1(kv_array, order)
    \/ \E kv_array \in AndQueries : \E order \in Orders(kv_array) : SearchAnd2(kv_array, order)

SpecSearch == InitLib /\ [][NextSearch]_vars

AllSorted == \A i \in 1..Len(CurStack.Haybale) : bales[CurStack.Haybale[i]].is_sorted_immutable

\* The bunches the last search printed, as <<Haybale number, first_ofs>>
Emitted == {<<searched.out[n].bale, searched.out[n].first>> : n \in 1..Len(searched.out)}

\* Stalk st has a key equal to ks ignoring case and a value equal to v under
\* the parse rule of the search and the comparison of the sort
Matches(st, ks, v) ==
    /\ EqualFold(Chars(CurStack.Dict.dkey[st.dkey]), Chars(ks))
    /\ Compare(st, [st EXCEPT !.val = ParseSearchVal(v)]) = 0

\* The bunches of the Haystack in which every condition of kv_array is
\* matched by some stalk of the bunch
Matching(kv_array) ==
    {e \in UNION {{<<i - 1, bales[CurStack.Haybale[i]].haystalk[n].first_ofs>> :
                      n \in 1..Len(bales[CurStack.Haybale[i]].haystalk)} :
                  i \in 1..Len(CurStack.Haybale)} :
        LET hb == bales[CurStack.Haybale[e[1] + 1]]
        IN \A ks \in DOMAIN kv_array :
              \E o \in ChainOf(hb, e[2], Len(hb.haystalk)) :
                  Matches(StalkAt(hb, o), ks, kv_array[ks])}

\* C3: on a Haystack whose Haybales are all sorted immutable, SearchKeyVal
\* prints a bunch if and only if the bunch holds a stalk whose key equals ks
\* ignoring case and whose value equals v under the parse rule and the
\* comparison of the sort.
C3_SearchOneExact ==
    (searched.op = "SearchKeyVal" /\ AllSorted) => Emitted = Matching(searched.kv_array)

\* C4: SearchKeyValArray prints exactly the bunches in which every condition
\* is matched by some stalk of the bunch, whichever condition leads the
\* binary search and wherever failing candidates lie.
C4_SearchAndExact ==
    (searched.op \in {"SearchKeyValArray1", "SearchKeyValArray2"} /\ AllSorted)
        => Emitted = Matching(searched.kv_array)

\* C5: an immutable Haybale is in non-decreasing order of Compare: for all
\* i < j, Compare(stalk[i], stalk[j]) <= 0.
C5_SortedImmutable ==
    \A b \in 1..Len(bales) :
        bales[b].is_sorted_immutable =>
            \A i, j \in 1..Len(bales[b].haystalk) :
                i < j => Compare(bales[b].haystalk[i], bales[b].haystalk[j]) <= 0

\* C6: after completed InsertBunch calls, sorted or not, every first_ofs is
\* below the number of stalks, every next_ofs is nil or below it, and the
\* chain from first_ofs ends at next_ofs = nil within that many hops.
C6_OffsetsInRange ==
    \A b \in 1..Len(bales) :
        \A i \in 1..Len(bales[b].haystalk) :
            LET s == bales[b].haystalk[i]
            IN /\ InRange(bales[b], s.first_ofs)
               /\ s.next_ofs = haystalk_ofs_nil \/ InRange(bales[b], s.next_ofs)
               /\ ChainEnds(bales[b], s.first_ofs, Len(bales[b].haystalk))

\* A sorted Haybale of two bunches, one of three stalks, in which the sort
\* moved stalks and the offsets were rewritten.
C6_Witness ==
    \E b \in 1..Len(bales) :
        /\ bales[b].is_sorted_immutable
        /\ Len(bales[b].haystalk) >= 5
        /\ \E i \in 1..Len(bales[b].haystalk) :
              /\ bales[b].haystalk[i].self_ofs # i - 1
              /\ bales[b].haystalk[i].next_ofs # haystalk_ofs_nil
              /\ bales[b].haystalk[i].first_ofs # i - 1

TimestampDkey(b) ==
    KeyExists(stacks[HaystackRoutines.writer_cur_haystack].Dict, Timestamp_key)[1]

\* C7: every bunch chain holds exactly one stalk with the dkey of
\* _timestamp, that stalk's first_ofs is its own offset, and every stalk of
\* the bunch has first_ofs pointing at it.
C7_OneTimestampStalk ==
    \A b \in 1..Len(bales) :
        \A i \in 1..Len(bales[b].haystalk) :
            LET hb == bales[b]
                s == hb.haystalk[i]
                chain == ChainOf(hb, s.first_ofs, Len(hb.haystalk))
            IN /\ InRange(hb, s.first_ofs)
               /\ StalkAt(hb, s.first_ofs).first_ofs = s.first_ofs
               /\ (i - 1) \in chain
               /\ Cardinality({o \in chain : StalkAt(hb, o).dkey = TimestampDkey(b)}) = 1

-----------------------------------------------------------------------------
(* TestFindOrAddKeyhash: FindOrAddKeyhash calls on one Dictionary *)

TestKeys == {"foo", "Foo", "bar", "dIMPLES", "dimples", "WAITS", "waits"}

InitDict ==
    /\ tdict = EmptyDict
    /\ tcalls = << >>
    /\ InitRoutines

TestFindOrAdd(k) ==
    /\ Len(tcalls) < MaxDictCalls
    /\ ~KeyExists(tdict, k)[3]
    /\ tdict' = FindOrAddDict(tdict, k)
    /\ tcalls' = Append(tcalls, <<k>> \o FindOrAddKeyhash(tdict, k))
    /\ UNCHANGED libVars

NextDict == \E k \in TestKeys : TestFindOrAdd(k)

SpecDict == InitDict /\ [][NextDict]_vars

CallsOf == {i \in 1..Len(tcalls) : TRUE}

\* C8: after FindOrAddKeyhash(k) returned slot h, KeyExists finds k and every
\* letter-case variant of k at h; a repeated call with a case variant returns
\* the same h and adds no entry; keys that differ other than by letter case
\* never get the same slot, also when their hashes collide.
C8_FindOrAdd ==
    /\ \A i \in CallsOf :
          /\ tcalls[i][3] = TRUE
          /\ tcalls[i][2] \in 0..hashkey_mask
          /\ \A k \in TestKeys :
                EqualFold(Chars(k), Chars(tcalls[i][1]))
                    => KeyExists(tdict, k) = <<tcalls[i][2], TRUE, FALSE>>
    /\ \A i, j \in CallsOf :
          EqualFold(Chars(tcalls[i][1]), Chars(tcalls[j][1])) <=> tcalls[i][2] = tcalls[j][2]
    /\ tdict.num_dkeys = Cardinality({ToLower(Chars(tcalls[i][1])) : i \in CallsOf})
    /\ tdict.num_dkeys = Cardinality(DOMAIN tdict.dkey)

\* Two keys with the same hash were added, the second one probed to the slot
\* 101 further, and a case variant of a key was added again.
C8_Witness ==
    /\ \E i, j \in CallsOf :
          /\ ~EqualFold(Chars(tcalls[i][1]), Chars(tcalls[j][1]))
          /\ findKeyhash(ToLower(Chars(tcalls[i][1]))) = findKeyhash(ToLower(Chars(tcalls[j][1])))
          /\ tcalls[j][2] = (tcalls[i][2] + hash_skip) % (hashkey_mask + 1)
    /\ \E i, j \in CallsOf :
          /\ i < j
          /\ tcalls[i][1] # tcalls[j][1]
          /\ EqualFold(Chars(tcalls[i][1]), Chars(tcalls[j][1]))

-----------------------------------------------------------------------------
(* The section codec: Mem2Disk *)

\* A file is a sequence of sections.  A section is kept as its section id, the
\* fields of its content before compression and encryption in the order
\* written, and unc_len, the number of bytes of that content.  A field is n
\* bytes that hold the number u, the string s, or the float64 with the bits
\* <<nan, u>>.  crc is the CRC stored in the 16 byte preamble.  Of an encrypted
\* section the file holds the nonce, the ciphertext and the tag: content is
\* what the ciphertext decrypts to, so a changed ciphertext byte is the same
\* byte of content changed, as AES in counter mode has it.

min_filesize == 58
max_filesize == 1024 * 1024 * 1024
len_dup == -2
aesgcm_block_additional == 12 + 16
min_DiskHeaderBaselen == 16
section_header == 1
section_dictionary == 2
section_haybale == 3
section_sha512 == 254
section_trailer == 255
version_major == 1
version_minor == 0
min_DiskDictHeaderLen == 8
max_dkeys == hashtable_size
min_DiskHaybaleHeaderLen == 20

\* The uuid of the AES key, 16 bytes
aes_test_uuid == "aes_test_uuid"

RECURSIVE Pow256(_)
Pow256(n) == IF n = 0 THEN 1 ELSE 256 * Pow256(n - 1)

Bytes(n, u) == [n |-> n, u |-> u, s |-> "", nan |-> FALSE]

StringBytes(s) == [n |-> Len(Chars(s)), u |-> 0, s |-> s, nan |-> FALSE]

addByteToData(v) == <<Bytes(1, v % 256)>>

\* The len low bytes of v; values written in 4 and 8 bytes fit
addMultibyteToData(v, len) == <<Bytes(len, IF len < 4 THEN v % Pow256(len) ELSE v)>>

\* addMultibyteToData(math.Float64bits(f), 8)
addFloat64bitsToData(f) == <<[n |-> 8, u |-> f.u, s |-> "", nan |-> f.nan]>>

\* The length in 4 bytes, then the bytes of the string
addStringToData(s) ==
    LET n == Len(Chars(s))
    IN addMultibyteToData(n, 4) \o (IF n > 0 THEN <<StringBytes(s)>> ELSE << >>)

\* dkey in 3 bytes, the length of the key in 1 byte, the key
addKeyToData(dkey, key) ==
    LET n == Len(Chars(key))
    IN addMultibyteToData(dkey, 3) \o addByteToData(n)
           \o (IF n > 0 THEN <<StringBytes(key)>> ELSE << >>)

RECURSIVE ContentLen(_)
ContentLen(content) ==
    IF content = << >> THEN 0 ELSE Head(content).n + ContentLen(Tail(content))

\* Byte i incremented, with no carry into the next byte
IncByte(nonce, i) == [nonce EXCEPT ![i] = (@ + 1) % 256]

\* aes_inc_nonce(): byte i is incremented, and the next one too if it wrapped
RECURSIVE aes_inc_nonce(_, _)
aes_inc_nonce(nonce, i) ==
    IF i > aesgcm_nonce_byte_len THEN nonce
    ELSE IF (nonce[i] + 1) % 256 # 0 THEN [nonce EXCEPT ![i] = @ + 1]
    ELSE aes_inc_nonce([nonce EXCEPT ![i] = 0], i + 1)

\* crc32.ChecksumIEEE(content) as the term crc32(content): two contents have
\* the same CRC exactly if they are the same bytes, as CRC-32 has it for
\* contents of one length that differ in one byte
ChecksumIEEE(content) == [crc32 |-> content]

\* The tag of aesgcm.Seal(nil, nonce, plaintext, extra) as a term over what it
\* authenticates; delta is the difference of the bytes in the file to it
GcmTag(nonce, plaintext, extra) ==
    [nonce |-> nonce, plaintext |-> plaintext, extra |-> extra, delta |-> 0]

\* An unencrypted section: the preamble with the CRC, and the content
Section(id, content) ==
    [section |-> id, unc_len |-> ContentLen(content), crc |-> ChecksumIEEE(content),
     nonce |-> << >>, content |-> content,
     tag |-> GcmTag(<< >>, << >>, [section |-> 0, unc_len |-> 0, crc |-> ChecksumIEEE(<< >>)])]

\* The preamble of a section, the additional authenticated data
Extra(sec) == [section |-> sec.section, unc_len |-> sec.unc_len, crc |-> sec.crc]

\* mem2DiskAES256GCMblock on the content of sec: nonce, ciphertext and tag
mem2DiskAES256GCMblock(sec, nonce) ==
    [sec EXCEPT !.nonce = nonce, !.tag = GcmTag(nonce, sec.content, Extra(sec))]

\* Bytes of a section in the file: the 16 byte preamble, the content, which
\* mem2DiskBzip2block leaves as it is unless bzip2 makes it shorter, and nonce
\* and tag for every section but the Header
SectionLen(sec) ==
    min_DiskHeaderBaselen + sec.unc_len
        + (IF sec.section = section_header THEN 0 ELSE aesgcm_block_additional)

RECURSIVE DataLen(_)
DataLen(data) == IF data = << >> THEN 0 ELSE SectionLen(Head(data)) + DataLen(Tail(data))

mem2DiskFileHeader ==
    Section(section_header,
            addByteToData(version_major) \o addByteToData(version_minor)
                \o <<[n |-> 16, u |-> 0, s |-> aes_test_uuid, nan |-> FALSE]>>)

mem2DiskFileTrailer(last_dict_ofs, time_first, time_last, nonce) ==
    mem2DiskAES256GCMblock(
        Section(section_trailer,
                addMultibyteToData(last_dict_ofs, 4) \o addMultibyteToData(time_first, 8)
                    \o addMultibyteToData(time_last, 8)),
        nonce)

\* The slots of a set in increasing order
RECURSIVE SlotSeq(_)
SlotSeq(slots) ==
    IF slots = {} THEN << >>
    ELSE LET i == CHOOSE x \in slots : \A y \in slots : x <= y
         IN <<i>> \o SlotSeq(slots \ {i})

RECURSIVE KeysToData(_, _)
KeysToData(p, order) ==
    IF order = << >> THEN << >>
    ELSE addKeyToData(Head(order), p.dkey[Head(order)]) \o KeysToData(p, Tail(order))

\* The slots Dictionary.Mem2Disk writes: every one for prev_ofs = 0, else the dirty ones
WrittenSlots(p, prev_ofs) == {i \in DOMAIN p.dkey : i \in p.dirty \/ prev_ofs = 0}

\* Dictionary.Mem2Disk(prev_ofs): the section, the Dictionary after the call,
\* and whether addKeyToData failed on a key longer than max_keylen
DictionaryMem2Disk(p, prev_ofs, nonce) ==
    LET slots == WrittenSlots(p, prev_ofs)
        content == addMultibyteToData(prev_ofs, 4) \o addMultibyteToData(p.num_dkeys, 4)
                       \o KeysToData(p, SlotSeq(slots))
    IN [data |-> mem2DiskAES256GCMblock(Section(section_dictionary, content), nonce),
        Dict |-> [p EXCEPT !.dirty = @ \ slots],
        err |-> \E i \in slots : Len(Chars(p.dkey[i])) > max_keylen]

\* One stalk of a Haybale section with its string always written in full
StalkInFull(h, dup) ==
    addMultibyteToData(h.dkey, 3) \o addByteToData(h.val.valtype)
        \o addMultibyteToData(h.first_ofs, 4) \o addMultibyteToData(h.next_ofs, 4)
        \o (CASE h.val.valtype = valtype_int -> addMultibyteToData(h.val.intval, 8)
              [] h.val.valtype = valtype_float -> addFloat64bitsToData(h.val.floatval)
              [] h.val.valtype = valtype_string -> addStringToData(h.val.stringval)
              [] OTHER -> << >>)

\* One stalk of a Haybale section; dup says that the string is the one written last
StalkToData(h, dup) ==
    addMultibyteToData(h.dkey, 3) \o addByteToData(h.val.valtype)
        \o addMultibyteToData(h.first_ofs, 4) \o addMultibyteToData(h.next_ofs, 4)
        \o (CASE h.val.valtype = valtype_int -> addMultibyteToData(h.val.intval, 8)
              [] h.val.valtype = valtype_float -> addFloat64bitsToData(h.val.floatval)
              [] h.val.valtype = valtype_string ->
                    IF dup THEN addMultibyteToData(len_dup, 4)
                    ELSE addStringToData(h.val.stringval)
              [] OTHER -> << >>)

\* The loop of Haybale.Mem2Disk from stalk i on; prev_string is << >> for nil,
\* else the string written last in full
RECURSIVE StalksToData(_, _, _)
StalksToData(hs, i, prev_string) ==
    IF i > Len(hs) THEN << >>
    ELSE LET string == hs[i].val.valtype = valtype_string
             dup == string /\ prev_string # << >> /\ hs[i].val.stringval = prev_string[1]
         IN StalkToData(hs[i], dup)
                \o StalksToData(hs, i + 1,
                                IF string /\ ~dup THEN <<hs[i].val.stringval>> ELSE prev_string)

\* Haybale.Mem2Disk on a Haybale that SortBale has been called on
HaybaleMem2Disk(hb, nonce) ==
    mem2DiskAES256GCMblock(
        Section(section_haybale,
                addMultibyteToData(Len(hb.haystalk), 4) \o addMultibyteToData(hb.time_first, 8)
                    \o addMultibyteToData(hb.time_last, 8) \o StalksToData(hb.haystalk, 1, << >>)),
        nonce)

RECURSIVE Mem2DiskLoop(_, _, _, _, _, _, _, _)

\* One round of the loop of Haystack.Mem2Disk, on Haybale number i: dc is what
\* p.Dict.Mem2Disk(prev_ofs) gave, sorted the Haybale after SortBale, nonce
\* the nonce after the Dictionary was sealed
Mem2DiskRound(B, hs, i, data, prev_ofs, time_first, time_last, dc, sorted, nonce) ==
    LET tf1 == IF time_first = 0 \/ sorted.time_first < time_first
               THEN sorted.time_first ELSE time_first
        tf2 == IF sorted.time_last > time_last THEN sorted.time_last ELSE tf1
    IN IF dc.err
       THEN [B |-> B, hs |-> [hs EXCEPT !.Dict = dc.Dict], data |-> << >>,
             prev_ofs |-> prev_ofs, time_first |-> time_first,
             time_last |-> time_last, err |-> TRUE, nonce |-> dc.data.nonce]
       ELSE Mem2DiskLoop([B EXCEPT ![hs.Haybale[i]] = sorted], [hs EXCEPT !.Dict = dc.Dict],
                         i + 1, data \o <<dc.data, HaybaleMem2Disk(sorted, nonce)>>,
                         DataLen(data), tf2, time_last, aes_inc_nonce(nonce, 1))

\* The loop of Haystack.Mem2Disk over p.Haybale, from Haybale number i on
Mem2DiskLoop(B, hs, i, data, prev_ofs, time_first, time_last, nonce) ==
    IF i > Len(hs.Haybale)
    THEN [B |-> B, hs |-> hs, data |-> data, prev_ofs |-> prev_ofs,
          time_first |-> time_first, time_last |-> time_last, err |-> FALSE, nonce |-> nonce]
    ELSE Mem2DiskRound(B, hs, i, data, prev_ofs, time_first, time_last,
                       DictionaryMem2Disk(hs.Dict, prev_ofs, nonce), SortBale(B[hs.Haybale[i]]),
                       aes_inc_nonce(nonce, 1))

\* The end of Haystack.Mem2Disk, r being what the loop left: the Trailer
Mem2DiskEnd(r) ==
    [B |-> r.B, hs |-> r.hs, err |-> r.err,
     nonce |-> IF r.err THEN r.nonce ELSE aes_inc_nonce(r.nonce, 1),
     data |-> IF r.err THEN << >>
              ELSE r.data \o <<mem2DiskFileTrailer(r.prev_ofs, r.time_first, r.time_last,
                                                   r.nonce)>>]

\* Haystack.Mem2Disk: the heap of Haybales and the Haystack after the call, and
\* the dataset returned
HaystackMem2Disk(B, hs, nonce) ==
    Mem2DiskEnd(Mem2DiskLoop(B, hs, 1, <<mem2DiskFileHeader>>, 0, 0, 0, nonce))

-----------------------------------------------------------------------------
(* The section codec: Disk2Mem *)

\* getUintFromData on the field at pos; a read past the end of the content
\* gives zero bytes
getUintFromData(content, pos) == IF pos <= Len(content) THEN content[pos].u ELSE 0

Float64frombits(content, pos) ==
    IF pos <= Len(content) THEN [nan |-> content[pos].nan, u |-> content[pos].u] ELSE Float(0)

\* getStringFromData of n bytes at pos
getStringFromData(content, pos, n) ==
    IF n > 0 /\ pos <= Len(content) THEN content[pos].s ELSE ""

\* Fields a string of n bytes takes
StringFields(n) == IF n > 0 THEN 1 ELSE 0

getDisk2MemHeader(content) ==
    IF getUintFromData(content, 1) # version_major \/ getUintFromData(content, 2) # version_minor
    THEN "stored version incompatible"
    ELSE IF getStringFromData(content, 3, 16) # aes_test_uuid
    THEN "different AES key"
    ELSE ""

\* The loop of getDisk2MemDictionary: left calls of getKeyFromData from pos on
RECURSIVE KeysFromData(_, _, _, _)
KeysFromData(dkeys, content, pos, left) ==
    IF left = 0 THEN dkeys
    ELSE LET dkey == getUintFromData(content, pos)
             n == getUintFromData(content, pos + 1)
             key == getStringFromData(content, pos + 2, n)
         IN KeysFromData((dkey :> key) @@ dkeys, content, pos + 2 + StringFields(n), left - 1)

\* getDisk2MemDictionary: the Haystack after the call and the error returned
getDisk2MemDictionary(p, sec) ==
    LET read_num_dkeys == getUintFromData(sec.content, 2)
    IN IF sec.unc_len < min_DiskDictHeaderLen
       THEN [hs |-> p, err |-> "dictionary section too short", panic |-> FALSE]
       ELSE IF read_num_dkeys > max_dkeys
       THEN [hs |-> p, err |-> "read num dkeys too large", panic |-> FALSE]
       ELSE [hs |-> [p EXCEPT !.Dict.dkey = KeysFromData(@, sec.content, 3, read_num_dkeys)],
             err |-> "", panic |-> FALSE]

\* The loop of getDisk2MemHaybale: stalk number i of num, read from pos on;
\* prev_string is << >> for nil
RECURSIVE StalksFromData(_, _, _, _, _, _, _)
StalksFromData(dict, content, pos, i, num, new_hb, prev_string) ==
    IF i >= num THEN [hb |-> new_hb, err |-> "", panic |-> FALSE]
    ELSE LET dkey == getUintFromData(content, pos)
             read_valtype == getUintFromData(content, pos + 1)
             first_ofs == getUintFromData(content, pos + 2)
             next_ofs == getUintFromData(content, pos + 3)
             read_len == getUintFromData(content, pos + 4)
             dup == read_valtype = valtype_string /\ read_len = len_dup
             val == CASE read_valtype = valtype_int ->
                            SetInt(getUintFromData(content, pos + 4))
                      [] read_valtype = valtype_float ->
                            SetFloat(Float64frombits(content, pos + 4))
                      [] read_valtype = valtype_string ->
                            IF dup THEN SetString(IF prev_string = << >> THEN "" ELSE prev_string[1])
                            ELSE SetString(getStringFromData(content, pos + 5, read_len))
                      [] OTHER -> ZeroVal
             next == CASE read_valtype \in {valtype_int, valtype_float} -> pos + 5
                       [] read_valtype = valtype_string ->
                             IF dup THEN pos + 5 ELSE pos + 5 + StringFields(read_len)
                       [] OTHER -> pos + 4
             size == 37 + (IF read_valtype = valtype_string /\ ~dup
                           THEN 2 + Len(Chars(val.stringval)) ELSE 0)
             hb == [new_hb EXCEPT !.haystalk = Append(@, Haystalk(dkey, val, i, first_ofs, next_ofs)),
                                  !.Memsize = @ + size]
         IN IF dkey \notin DOMAIN dict.dkey
            THEN [hb |-> new_hb, err |-> "", panic |-> TRUE]
            ELSE IF dup /\ prev_string = << >>
            THEN [hb |-> new_hb, err |-> "de-dupped string indicated but not present",
                  panic |-> FALSE]
            ELSE StalksFromData(dict, content, next, i + 1, num, hb,
                                IF read_valtype = valtype_string /\ ~dup
                                THEN <<val.stringval>> ELSE prev_string)

\* The end of getDisk2MemHaybale, r being what the loop over the stalks left
HaybaleFromData(p, r) ==
    IF r.panic \/ r.err # ""
    THEN [hs |-> p, err |-> r.err, panic |-> r.panic]
    ELSE [hs |-> [p EXCEPT !.memsize = @ + r.hb.Memsize,
                           !.Haybale = Append(@, [r.hb EXCEPT !.is_sorted_immutable = TRUE])],
          err |-> "", panic |-> FALSE]

\* getDisk2MemHaybale: the Haystack after the call, the error returned, and
\* whether it panicked on a dkey whose slot is nil
getDisk2MemHaybale(p, sec) ==
    LET content == sec.content
        new_hb == [EmptyBale EXCEPT !.time_first = getUintFromData(content, 2),
                                    !.time_last = getUintFromData(content, 3)]
    IN IF sec.unc_len = 0
       THEN [hs |-> p, err |-> "", panic |-> FALSE]
       ELSE IF sec.unc_len < min_DiskHaybaleHeaderLen
       THEN [hs |-> p, err |-> "haybale section too short", panic |-> FALSE]
       ELSE HaybaleFromData(p, StalksFromData(p.Dict, content, 4, 0,
                                              getUintFromData(content, 1), new_hb, << >>))

\* The switch of getDisk2MemSections on the section read
SectionFromData(p, sec, prev_section) ==
    CASE sec.section = section_header ->
             [hs |-> p, err |-> getDisk2MemHeader(sec.content), panic |-> FALSE]
      [] sec.section = section_dictionary ->
             IF prev_section # section_header /\ prev_section # section_haybale
             THEN [hs |-> p, panic |-> FALSE,
                   err |-> "Dictionary section can only follow a Header or Haybale"]
             ELSE getDisk2MemDictionary(p, sec)
      [] sec.section = section_haybale ->
             IF prev_section # section_dictionary
             THEN [hs |-> p, panic |-> FALSE,
                   err |-> "Haybale section can only follow a Dictionary"]
             ELSE getDisk2MemHaybale(p, sec)
      [] OTHER -> [hs |-> p, err |-> "unknown section type", panic |-> FALSE]

\* A mode of decryption that authenticates nothing
OpenUnauthenticated(sec) == TRUE

\* getDisk2MemAES256GCMblock(content, header): whether aesgcm.Open authenticates
\* nonce, ciphertext and preamble against the tag
getDisk2MemAES256GCMblock(sec) == sec.tag = GcmTag(sec.nonce, sec.content, Extra(sec))

RECURSIVE getDisk2MemSections(_, _, _)

\* After the switch gave r: return its error, or go on with the next section
SectionsFromData(r, data, section) ==
    IF r.panic \/ r.err # "" THEN r ELSE getDisk2MemSections(r.hs, data, section)

\* getDisk2MemSections from the next section of data on, prev_section being
\* the section read before it, 0 for none
getDisk2MemSections(p, data, prev_section) ==
    IF data = << >>
    THEN [hs |-> p, err |-> "unexpected end of file", panic |-> FALSE]
    ELSE IF prev_section = 0 /\ Head(data).section # section_header
    THEN [hs |-> p, err |-> "first section not header", panic |-> FALSE]
    ELSE IF Head(data).unc_len < 1 \/ Head(data).unc_len > max_filesize
    THEN [hs |-> p, err |-> "stored lengths invalid", panic |-> FALSE]
    ELSE IF Head(data).section # section_header /\ ~getDisk2MemAES256GCMblock(Head(data))
    THEN [hs |-> p, err |-> "error decrypting Haystack", panic |-> FALSE]
    ELSE IF Head(data).crc # ChecksumIEEE(Head(data).content)
    THEN [hs |-> p, err |-> "section CRC mismatch", panic |-> FALSE]
    ELSE IF Head(data).section = section_trailer
    THEN [hs |-> p, err |-> "", panic |-> FALSE]
    ELSE SectionsFromData(SectionFromData(p, Head(data), prev_section), Tail(data),
                          Head(data).section)

\* Haystack.Disk2Mem(data)
Disk2Mem(p, data) ==
    IF DataLen(data) < min_filesize
    THEN [hs |-> p, err |-> "dataset too short", panic |-> FALSE]
    ELSE IF DataLen(data) > max_filesize
    THEN [hs |-> p, err |-> "dataset too long", panic |-> FALSE]
    ELSE getDisk2MemSections(p, data, 0)

-----------------------------------------------------------------------------
(* Writing a Haystack with Mem2Disk and reading files with Disk2Mem *)

\* Sections in a file offered to Disk2Mem that is not the file written
MaxSections == 3

\* data, _ := hs.Mem2Disk() on the current Haystack
Mem2DiskCall ==
    /\ ~panicked
    /\ ~disk.written
    /\ \E r \in {HaystackMem2Disk(bales, CurStack, aesgcm_nonce)} :
          /\ aesgcm_nonce' = r.nonce
          /\ bales' = r.B
          /\ stacks' = [stacks EXCEPT ![HaystackRoutines.writer_cur_haystack] = r.hs]
          /\ disk' = [written |-> ~r.err, data |-> r.data, Dict |-> r.hs.Dict,
                      Haybale |-> [i \in 1..Len(r.hs.Haybale) |-> r.B[r.hs.Haybale[i]]]]
    /\ searched' = NoSearch
    /\ UNCHANGED <<HaystackRoutines, config, newhaybale_mutex, panicked, dictVars, reader,
                   routineVars>>

\* hs.Disk2Mem(data) in a process that reads one file into its new Haystack
Disk2MemCall(data) ==
    /\ ~reader.called
    /\ \E r \in {Disk2Mem(reader.hs, data)} :
          reader' = [called |-> TRUE, data |-> data, before |-> reader.hs, hs |-> r.hs,
                     err |-> r.err, panic |-> r.panic]
    /\ UNCHANGED <<bales, stacks, HaystackRoutines, config, newhaybale_mutex, panicked,
                   searched, disk, dictVars, aesgcm_nonce, routineVars>>

\* The first section of each kind in the file written
SectionsOf(data) ==
    {data[i] : i \in {j \in 1..Len(data) :
                         \A m \in 1..(j - 1) : data[m].section # data[j].section}}

\* Files made of those sections, in any order
Arranged(data) ==
    UNION {[1..n -> SectionsOf(data)] : n \in 1..MaxSections}

\* Low bytes of a number field that are offered changed
MaxFlipBytes == 1

\* A string of the same length that differs in one byte
OtherString(s) ==
    CASE s = "_timestamp" -> "_Timestamp"
      [] s = "k" -> "K"
      [] s = "K" -> "k"
      [] s = "b" -> "B"
      [] s = "abc" -> "Abc"
      [] s = "fbi" -> "Fbi"
      [] s = TS1 -> TS2
      [] s = TS2 -> TS1
      [] s = TS3 -> "1970-01-01T00:00:00.000000002+0000"
      [] s = aes_test_uuid -> "aes_test_uuiD"
      [] OTHER -> "?"

\* u with the lowest bit of its byte k changed
FlipBit(u, k) ==
    IF (u \div Pow256(k)) % 2 = 0 THEN u + Pow256(k) ELSE u - Pow256(k)

\* The field f with one of its bytes changed
FlipField(f) ==
    IF f.s # "" THEN {[f EXCEPT !.s = OtherString(@)]}
    ELSE {[f EXCEPT !.u = FlipBit(@, k)] :
             k \in 0..((IF f.n < MaxFlipBytes THEN f.n ELSE MaxFlipBytes) - 1)}

\* The section with one byte after its preamble changed: a byte of the
\* content, or of the nonce, or of the tag
FlipSection(sec) ==
    UNION {{[sec EXCEPT !.content[j] = f] : f \in FlipField(sec.content[j])} :
              j \in 1..Len(sec.content)}
        \cup (IF sec.section = section_header THEN {}
              ELSE {[sec EXCEPT !.nonce[1] = (@ + 1) % 256], [sec EXCEPT !.tag.delta = 1]})

\* The file written with one byte after the preamble of one section changed
Damaged(data) ==
    UNION {{[data EXCEPT ![i] = t] : t \in FlipSection(data[i])} : i \in 1..Len(data)}

\* The file written cut off after a section
Truncated(data) == {SubSeq(data, 1, n) : n \in 0..Len(data)}

InputFiles(data) == {data} \cup Arranged(data) \cup Damaged(data) \cup Truncated(data)

\* The flattened records of the Haystack written
CodecRecords ==
    { (Timestamp_key :> TS1) @@ ("k" :> "abc"),
      (Timestamp_key :> TS2) @@ ("b" :> "abc"),
      (Timestamp_key :> TS3) @@ ("k" :> "7"),
      (Timestamp_key :> TS1) @@ ("fbi" :> "1.5") }

NextCodec ==
    \/ \E flatmap \in CodecRecords : \E order \in Orders(flatmap) :
          ~disk.written /\ InsertBunch(flatmap, order)
    \/ ~disk.written /\ NewHaybale
    \/ Mem2DiskCall
    \/ /\ disk.written
       /\ ~reader.called
       /\ \E data \in InputFiles(disk.data) : Disk2MemCall(data)

SpecCodec == InitLib /\ [][NextCodec]_vars

-----------------------------------------------------------------------------
(* Properties of the codec *)

\* The last Disk2Mem call decoded the file Mem2Disk returned
ReadBack == disk.written /\ reader.called /\ reader.data = disk.data

SameStalk(a, b) ==
    /\ a.dkey = b.dkey
    /\ a.val = b.val
    /\ a.first_ofs = b.first_ofs
    /\ a.next_ofs = b.next_ofs

SameBale(a, b) ==
    /\ Len(a.haystalk) = Len(b.haystalk)
    /\ \A i \in 1..Len(a.haystalk) : SameStalk(a.haystalk[i], b.haystalk[i])
    /\ a.time_first = b.time_first
    /\ a.time_last = b.time_last

SameBales ==
    /\ reader.err = ""
    /\ ~reader.panic
    /\ Len(reader.hs.Haybale) = Len(disk.Haybale)
    /\ \A i \in 1..Len(disk.Haybale) : SameBale(reader.hs.Haybale[i], disk.Haybale[i])

\* C2: decoding the file that encoding a Haystack with one or more Haybales
\* produced yields the same Haybales in the same order, each with the same
\* stalks (dkey, type, value, first_ofs, next_ofs) and the same time_first and
\* time_last, and a Dictionary in which exactly the same slots hold the same
\* key names.
C2_RoundTrip ==
    (ReadBack /\ Len(disk.Haybale) >= 1)
        => (SameBales /\ reader.hs.Dict.dkey = disk.Dict.dkey)

\* The pairs of a section and the section after it that the file format has
SectionPairs ==
    { <<section_header, section_dictionary>>, <<section_dictionary, section_haybale>>,
      <<section_haybale, section_dictionary>>, <<section_haybale, section_trailer>> }

\* Positions of the Trailer sections of a file
TrailersOf(data) == {i \in 1..Len(data) : data[i].section = section_trailer}

\* The file starts with a Header and every pair of sections up to its first
\* Trailer is one of SectionPairs
OrderOk(data) ==
    /\ data # << >>
    /\ data[1].section = section_header
    /\ \E t \in TrailersOf(data) :
          \A i \in 1..(t - 1) :
              /\ i \notin TrailersOf(data)
              /\ <<data[i].section, data[i + 1].section>> \in SectionPairs

\* The last Disk2Mem call returned nil
Accepted == reader.called /\ reader.err = "" /\ ~reader.panic

AllIntact(data) ==
    \A i \in 1..Len(data) :
        /\ data[i].section = section_header \/ getDisk2MemAES256GCMblock(data[i])
        /\ data[i].crc = ChecksumIEEE(data[i].content)

\* C9: the reader accepts a sequence of individually valid sections only if the
\* first section is a Header and every consecutive pair of sections up to the
\* Trailer is one of Header->Dictionary, Dictionary->Haybale,
\* Haybale->Dictionary, Haybale->Trailer; every other ordering makes decode
\* return an error.
C9_SectionOrder == (Accepted /\ AllIntact(reader.data)) => OrderOk(reader.data)

\* C10: if Disk2Mem returns an error at any section of the input, the Haystack
\* it was decoding into is as it was before the call: no Haybale has been
\* appended, no Dictionary slot has been set or overwritten, and memsize is
\* unchanged.
C10_ErrorLeavesHaystack ==
    (reader.called /\ reader.err # "")
        => /\ reader.hs.Haybale = reader.before.Haybale
           /\ reader.hs.Dict = reader.before.Dict
           /\ reader.hs.memsize = reader.before.memsize

\* The sections a and b have the same preamble and differ in one place after
\* it: one field of the content, the nonce, or the tag
OnePlaceDiffers(a, b) ==
    /\ Extra(a) = Extra(b)
    /\ Len(a.content) = Len(b.content)
    /\ Cardinality({j \in 1..Len(a.content) : a.content[j] # b.content[j]})
           + (IF a.nonce # b.nonce THEN 1 ELSE 0) + (IF a.tag # b.tag THEN 1 ELSE 0) = 1

\* The last Disk2Mem call decoded the file written with one byte changed
ReadDamaged ==
    /\ disk.written
    /\ reader.called
    /\ Len(reader.data) = Len(disk.data)
    /\ \E i \in 1..Len(disk.data) :
          /\ OnePlaceDiffers(reader.data[i], disk.data[i])
          /\ \A j \in 1..Len(disk.data) : j # i => reader.data[j] = disk.data[j]

\* C11: for every file Mem2Disk wrote, changing one byte of the payload of
\* any section up to and including the Trailer makes Disk2Mem return an
\* integrity error, of the GCM authentication or of the CRC.
C11_ByteFlipRejected ==
    ReadDamaged => reader.err \in {"error decrypting Haystack", "section CRC mismatch"}

\* A file of a Haystack with stalks was read with a byte of its Trailer
\* changed, and another with a byte of its Header changed
C11_Witness ==
    /\ ReadDamaged
    /\ Len(disk.Haybale) >= 1
    /\ Len(disk.Haybale[1].haystalk) >= 2
    /\ reader.err = "error decrypting Haystack"
    /\ reader.data[Len(reader.data)].section = section_trailer
    /\ reader.data[Len(reader.data)].content # disk.data[Len(disk.data)].content

-----------------------------------------------------------------------------
(* The calling goroutine and diskWriter, statement by statement *)

\* Flush calls the application makes between InsertBunch calls
MaxCommands == 2

\* Stalks in all Haybales together while diskWriter runs
MaxRoutineStalks == 4

\* The flattened records offered to InsertBunch while diskWriter runs
RoutineRecords ==
    { (Timestamp_key :> TS1) @@ ("k" :> "b"),
      (Timestamp_key :> TS2) @@ ("k" :> "7"),
      ("k" :> "abc") }

\* The pairs of flatmap in the order the map iteration yields them
Pairs(flatmap, order) == [i \in 1..Len(order) |-> <<order[i], flatmap[order[i]]>>]

\* The calling goroutine after a return
Returned(ing) == [IdleIngest EXCEPT !.sent = ing.sent]

\* Every record taken as one that has a _timestamp
AnyRecord(flatmap) == TRUE

\* _, ok := flatmap[Timestamp_key]
HasTimestamp(flatmap) == Timestamp_key \in DOMAIN flatmap

\* InsertBunch, the test of is_sorted_immutable made before Lock()
InsertBunchBegin(flatmap, order) ==
    /\ ~panicked
    /\ ingest.pc = "idle"
    /\ TotalStalks(bales, MaxRoutineStalks) + Cardinality(DOMAIN flatmap) <= MaxRoutineStalks
    /\ ingest' = IF bales[HaystackRoutines.writer_cur_haybale].is_sorted_immutable
                 THEN Returned(ingest)
                 ELSE [ingest EXCEPT !.pc = "lock",
                                     !.inserting = TRUE,
                                     !.keys = DOMAIN flatmap,
                                     !.has_timestamp = HasTimestamp(flatmap),
                                     !.vs = IF Timestamp_key \in DOMAIN flatmap
                                            THEN flatmap[Timestamp_key] ELSE "",
                                     !.todo = Pairs(flatmap, order)]
    /\ UNCHANGED <<bales, stacks, HaystackRoutines, config, newhaybale_mutex, panicked, searched,
                   writer, datastore, dictVars, aesgcm_nonce, codecVars>>

\* Lock(), the test for _timestamp, which returns with the mutex held, and the
\* receiver and the Dictionary of the first insertStalk call
InsertBunchLock ==
    /\ ~panicked
    /\ ingest.pc = "lock"
    /\ ~newhaybale_mutex
    /\ newhaybale_mutex' = TRUE
    /\ ingest' = IF ~ingest.has_timestamp THEN Returned(ingest)
                 ELSE [ingest EXCEPT !.pc = "timestamp",
                                     !.recv = HaystackRoutines.writer_cur_haybale,
                                     !.recvS = HaystackRoutines.writer_cur_haystack]
    /\ UNCHANGED <<bales, stacks, HaystackRoutines, config, panicked, searched, writer, datastore,
                   dictVars, aesgcm_nonce, codecVars>>

\* The head of the loop over flatmap: the next key that gets a stalk, with the
\* receiver and the Dictionary of its insertStalk call
RECURSIVE LoopHead(_)
LoopHead(ing) ==
    IF ing.todo = << >> THEN [ing EXCEPT !.pc = "chain"]
    ELSE IF Head(ing.todo)[1] = Timestamp_key \/ Len(Chars(Head(ing.todo)[1])) = 0
    THEN LoopHead([ing EXCEPT !.todo = Tail(@)])
    ELSE IF Len(Chars(Head(ing.todo)[1])) > max_keylen THEN [ing EXCEPT !.pc = "panic"]
    ELSE [ing EXCEPT !.pc = "insert",
                     !.recv = HaystackRoutines.writer_cur_haybale,
                     !.recvS = HaystackRoutines.writer_cur_haystack]

\* The receivers an insertStalk call of InsertBunch can have: the pointers
\* read at the end of the statement before, or the ones read after the steps
\* diskWriter took since
Receivers ==
    {<<ingest.recv, ingest.recvS>>,
     <<HaystackRoutines.writer_cur_haybale, HaystackRoutines.writer_cur_haystack>>}

\* The body of an insertStalk call of InsertBunch; home keeps the Haybale that
\* got the _timestamp stalk of the call
InsertStalkStep(k, v, pc) ==
    /\ ~panicked
    /\ \E rc \in Receivers :
       \E r \in {insertStalk(bales, stacks, rc[1], rc[2], k, v)} :
          /\ bales' = r.B
          /\ stacks' = r.S
          /\ ingest' = [ingest EXCEPT !.pc = pc, !.pos = r.pos,
                                      !.home = IF k = Timestamp_key THEN rc[1] ELSE @]
    /\ UNCHANGED <<HaystackRoutines, config, newhaybale_mutex, panicked, searched, writer,
                   datastore, dictVars, aesgcm_nonce, codecVars>>

\* first = p.writer_cur_haybale.insertStalk(..., Timestamp_key, vs)
InsertTimestamp ==
    /\ ingest.pc = "timestamp"
    /\ InsertStalkStep(Timestamp_key, ingest.vs, "first")

\* pos := p.writer_cur_haybale.insertStalk(..., k, vs)
InsertKey ==
    /\ ingest.pc = "insert"
    /\ InsertStalkStep(Head(ingest.todo)[1], Head(ingest.todo)[2], "link")

\* A statement of InsertBunch that indexes p.writer_cur_haybale.haystalk, the
\* pointer being read again: hb is the Haybale after the statement, ing the
\* goroutine after it; an index out of range is a panic
IndexStep(ofs, panic, hb, ing, unlock) ==
    /\ ~panicked
    /\ IF ~InRange(bales[HaystackRoutines.writer_cur_haybale], ofs)
       THEN /\ panicked' = TRUE
            /\ UNCHANGED <<bales, ingest, newhaybale_mutex>>
       ELSE /\ bales' = [bales EXCEPT ![HaystackRoutines.writer_cur_haybale] = hb]
            /\ panicked' = (panic \/ ing.pc = "panic")
            /\ ingest' = ing
            /\ newhaybale_mutex' = (newhaybale_mutex /\ (panicked' \/ ~unlock))
    /\ UNCHANGED <<stacks, HaystackRoutines, config, searched, writer, datastore,
                   dictVars, aesgcm_nonce,
                   codecVars>>

\* p.writer_cur_haybale with the field of stalk ofs set, unless ofs is out of range
SetFirst(ofs, v) ==
    IF InRange(bales[HaystackRoutines.writer_cur_haybale], ofs)
    THEN [bales[HaystackRoutines.writer_cur_haybale] EXCEPT !.haystalk[ofs + 1].first_ofs = v]
    ELSE bales[HaystackRoutines.writer_cur_haybale]

SetNext(hb, ofs, v) ==
    IF InRange(hb, ofs) THEN [hb EXCEPT !.haystalk[ofs + 1].next_ofs = v] ELSE hb

\* haystalk[first].first_ofs = first, the parse of the timestamp, time_first
\* and time_last; then the head of the loop
InsertFirst ==
    /\ ingest.pc = "first"
    /\ \E hb \in {SetFirst(ingest.pos, ingest.pos)} :
          IndexStep(ingest.pos, ~TimeParseOk(ingest.vs),
                    IF TimeParseOk(ingest.vs) THEN UpdateTimes(hb, UnixNano(ingest.vs)) ELSE hb,
                    LoopHead([ingest EXCEPT !.first = ingest.pos, !.prev = haystalk_ofs_nil]),
                    FALSE)

\* haystalk[pos].first_ofs = first, haystalk[pos].next_ofs = prev, prev = pos;
\* then the head of the loop
InsertLink ==
    /\ ingest.pc = "link"
    /\ IndexStep(ingest.pos, FALSE,
                 SetNext(SetFirst(ingest.pos, ingest.first), ingest.pos, ingest.prev),
                 LoopHead([ingest EXCEPT !.prev = ingest.pos, !.todo = Tail(@)]),
                 FALSE)

\* The goroutine after Unlock(): the thresholds, and the command to send if
\* one is reached
AfterUnlock(ing, cmd) ==
    IF cmd = diskwriter_nop THEN Returned(ing)
    ELSE [Returned(ing) EXCEPT !.pc = "send", !.send = <<cmd>>, !.inserting = TRUE,
                               !.keys = ing.keys]

\* haystalk[first].next_ofs = prev, Unlock(), and the test of the thresholds
InsertChain ==
    /\ ingest.pc = "chain"
    /\ \E hb \in {SetNext(bales[HaystackRoutines.writer_cur_haybale], ingest.first,
                            ingest.prev)} :
          IndexStep(ingest.first, FALSE, hb,
                    AfterUnlock(ingest,
                                FlushCommand([bales EXCEPT ![HaystackRoutines.writer_cur_haybale] = hb],
                                             stacks, HaystackRoutines)),
                    TRUE)

\* FlushHaystack() and FlushHaybale() called by the application
FlushCall(cmd) ==
    /\ ~panicked
    /\ ingest.pc = "idle"
    /\ ingest.sent < MaxCommands
    /\ ingest' = [ingest EXCEPT !.pc = "send", !.send = <<cmd>>, !.sent = @ + 1]
    /\ UNCHANGED <<bales, stacks, HaystackRoutines, config, newhaybale_mutex, panicked, searched,
                   writer, datastore, dictVars, aesgcm_nonce, codecVars>>

\* ShutDown(): FlushHaystack(), then diskwriter_close, then the wait
ShutDown ==
    /\ ~panicked
    /\ ingest.pc = "idle"
    /\ ingest' = [ingest EXCEPT !.pc = "send", !.closing = TRUE,
                                !.send = <<diskwriter_flush_haystack, diskwriter_close>>]
    /\ UNCHANGED <<bales, stacks, HaystackRoutines, config, newhaybale_mutex, panicked, searched,
                   writer, datastore, dictVars, aesgcm_nonce, codecVars>>

\* diskwriter_ch is unbuffered: a send and the receive of diskWriter happen together
SendReceive ==
    /\ ~panicked
    /\ ingest.pc = "send"
    /\ writer.pc = "receive"
    /\ writer' = [writer EXCEPT !.pc = "command", !.cmd = Head(ingest.send),
                                !.seen = bales[HaystackRoutines.writer_cur_haybale].Memsize > 0]
    /\ ingest' = IF Len(ingest.send) > 1 THEN [ingest EXCEPT !.send = Tail(@)]
                 ELSE IF ingest.closing THEN [ingest EXCEPT !.pc = "wait", !.send = << >>]
                 ELSE Returned(ingest)
    /\ UNCHANGED <<bales, stacks, HaystackRoutines, config, newhaybale_mutex, panicked, searched,
                   datastore, dictVars, aesgcm_nonce, codecVars>>

\* A Wait() that returns without the Done() of diskWriter
ReturnEarly ==
    /\ ~panicked
    /\ ingest.pc = "wait"
    /\ ingest' = [ingest EXCEPT !.pc = "down"]
    /\ UNCHANGED <<bales, stacks, HaystackRoutines, config, newhaybale_mutex, panicked, searched,
                   writer, datastore, dictVars, aesgcm_nonce, codecVars>>

\* diskwriter_wg.Wait() returns after the Done() of diskWriter
ShutDownReturn ==
    /\ ~panicked
    /\ ingest.pc = "wait"
    /\ writer.pc = "exited"
    /\ ingest' = [ingest EXCEPT !.pc = "down"]
    /\ UNCHANGED <<bales, stacks, HaystackRoutines, config, newhaybale_mutex, panicked, searched,
                   writer, datastore, dictVars, aesgcm_nonce, codecVars>>

\* writeHaystackHeader(): opens the file and writes the Header if no file is open
writeHaystackHeader(hr, ds) ==
    IF hr.writer_cur_fp THEN [hr |-> hr, ds |-> ds]
    ELSE [hr |-> [hr EXCEPT !.writer_cur_fp = TRUE],
          ds |-> [ds EXCEPT !.iname = <<mem2DiskFileHeader>>]]

\* Memsize of the last Haybale of writer_cur_haystack
LastMemsize == bales[CurStack.Haybale[Len(CurStack.Haybale)]].Memsize

\* diskWriter: the switch on a received command, up to the loop over the Haybales
WriterCommand ==
    /\ ~panicked
    /\ writer.pc = "command"
    /\ IF writer.cmd = diskwriter_close
       THEN /\ writer' = [IdleWriter EXCEPT !.pc = "exited"]
            /\ UNCHANGED <<HaystackRoutines, datastore>>
       ELSE IF LastMemsize = 0
       THEN /\ writer' = IdleWriter
            /\ UNCHANGED <<HaystackRoutines, datastore>>
       ELSE /\ \E r \in {writeHaystackHeader(HaystackRoutines, datastore)} :
                  /\ HaystackRoutines' = r.hr
                  /\ datastore' = r.ds
            /\ writer' = IF writer.cmd = diskwriter_flush_haybale THEN IdleWriter
                         ELSE [writer EXCEPT !.pc = "bale", !.i = 1,
                                             !.n = Len(CurStack.Haybale)]
    /\ UNCHANGED <<bales, stacks, config, newhaybale_mutex, panicked, searched, ingest,
                   dictVars, aesgcm_nonce,
                   codecVars>>

\* The update of time_first and time_last at the end of a round of the loop,
\* and the next round or the Trailer
NextRound(w, hb) ==
    [w EXCEPT !.time_first = IF @ = 0 \/ hb.time_first < @ THEN hb.time_first ELSE @,
              !.time_last = IF hb.time_last > @ THEN hb.time_last ELSE @,
              !.i = @ + 1,
              !.pc = IF w.i + 1 > w.n THEN "trailer" ELSE "bale"]

\* The Haybale of the round diskWriter is in
WriterBale == CurStack.Haybale[writer.i]

\* A round of the flush_haystack loop: the test of Haybale[i], and newHaybale()
\* if it is the Haybale InsertBunch writes to
WriterRound ==
    /\ ~panicked
    /\ writer.pc = "bale"
    /\ IF bales[WriterBale].Memsize > 0 /\ ~bales[WriterBale].is_sorted_immutable
       THEN /\ writer' = [writer EXCEPT !.pc = "sort"]
            /\ IF WriterBale = HaystackRoutines.writer_cur_haybale
               THEN /\ bales' = newHaybaleB(bales)
                    /\ stacks' = newHaybaleS(bales, stacks, HaystackRoutines.writer_cur_haystack)
                    /\ HaystackRoutines' =
                          [HaystackRoutines EXCEPT !.writer_cur_haybale = Len(bales) + 1]
               ELSE UNCHANGED <<bales, stacks, HaystackRoutines>>
       ELSE /\ writer' = NextRound(writer, bales[WriterBale])
            /\ UNCHANGED <<bales, stacks, HaystackRoutines>>
    /\ UNCHANGED <<config, newhaybale_mutex, panicked, searched, ingest, datastore,
                   dictVars, aesgcm_nonce,
                   codecVars>>

\* Haybale[i].SortBale()
WriterSort ==
    /\ ~panicked
    /\ writer.pc = "sort"
    /\ bales' = [bales EXCEPT ![WriterBale] = SortBale(@)]
    /\ writer' = [writer EXCEPT !.pc = "write"]
    /\ UNCHANGED <<stacks, HaystackRoutines, config, newhaybale_mutex, panicked, searched, ingest,
                   datastore, dictVars, aesgcm_nonce, codecVars>>

\* mem2DiskDictionaryAndHaybale(hs, i): the Dictionary section dc of
\* Dict.Mem2Disk(writer_prev_ofs) and the section of Haybale hb are written to
\* the open file; the offset of the pair is kept for the next Dictionary and
\* for the Trailer
mem2DiskDictionaryAndHaybale(ds, hb, dc, nonce) ==
    [ds EXCEPT !.iname = @ \o <<dc.data, HaybaleMem2Disk(hb, nonce)>>,
               !.last_dict_ofs = DataLen(ds.iname)]

\* mem2DiskDictionaryAndHaybale on Haybale[i], and the end of the round
WriterWrite ==
    /\ ~panicked
    /\ writer.pc = "write"
    /\ \E dc \in {DictionaryMem2Disk(CurStack.Dict, HaystackRoutines.writer_prev_ofs,
                                      aesgcm_nonce)} :
          /\ stacks' = [stacks EXCEPT ![HaystackRoutines.writer_cur_haystack].Dict = dc.Dict]
          /\ datastore' = mem2DiskDictionaryAndHaybale(datastore, bales[WriterBale], dc,
                                                       aes_inc_nonce(aesgcm_nonce, 1))
    /\ aesgcm_nonce' = aes_inc_nonce(aes_inc_nonce(aesgcm_nonce, 1), 1)
    /\ HaystackRoutines' = [HaystackRoutines EXCEPT !.writer_prev_ofs = DataLen(datastore.iname)]
    /\ writer' = NextRound(writer, bales[WriterBale])
    /\ UNCHANGED <<bales, config, newhaybale_mutex, panicked, searched, ingest, dictVars,
                   codecVars>>

\* newHaystack(): a new Haystack with one new Haybale
newHaystack(hr, B, S) ==
    [hr EXCEPT !.writer_cur_haystack = Len(S) + 1, !.writer_cur_haybale = Len(B) + 1]

\* What the operating system answers to the calls of writeHaystackTrailer: all
\* succeed, or the write of the Trailer, Close(), os.Rename or the write of the
\* catalogue file fails
TrailerOutcomes == {"ok", "write", "close", "rename", "catalogue"}

\* fmt.Sprintf("%d-%d", time_first, time_last), the name of a file without
\* directory and extension
FileName(time_first, time_last) == FormatD(time_first) \o <<45>> \o FormatD(time_last)

\* strings.Cut(fname_noext, "-"): the place of the first "-", 0 for none
RECURSIVE CutAt(_, _)
CutAt(cs, i) == IF i > Len(cs) THEN 0 ELSE IF cs[i] = 45 THEN i ELSE CutAt(cs, i + 1)

\* The files of a directory without those named <time_first>-<time_last>
Others(files, time_first, time_last) ==
    SelectSeq(files, LAMBDA f : f.time_first # time_first \/ f.time_last # time_last)

\* CreateCatelogueFile(fname): time_first and time_last are parsed from the
\* name of the Haystack file, and the SHA-512 section is written under these
\* two numbers; ok says that os.WriteFile succeeded
CreateCatelogueFile(catalogue, fname, ok) ==
    LET at == CutAt(fname, 1)
        before == IF at = 0 THEN fname ELSE SubSeq(fname, 1, at - 1)
        after == IF at = 0 THEN << >> ELSE SubSeq(fname, at + 1, Len(fname))
    IN IF ~AtoiOk(before) \/ ~AtoiOk(after) \/ ~ok THEN catalogue
       ELSE Append(Others(catalogue, Atoi(before), Atoi(after)),
                   [time_first |-> Atoi(before), time_last |-> Atoi(after)])

\* The file a rename leaves under <time_first>-<time_last>.hs: what was written
\* through the descriptor, and behind it what is left of a longer file that
\* was under diskwriter_iname when it was opened (OpenFile has no O_TRUNC)
Renamed(ds, data, time_first, time_last, io) ==
    [time_first |-> time_first, time_last |-> time_last, data |-> data,
     garbage |-> IF ds.stale > DataLen(data) THEN ds.stale - DataLen(data) ELSE 0,
     closed |-> io # "close"]

\* writeHaystackTrailer(time_first, time_last) on the files: the Trailer,
\* Close(), whose result is not looked at, os.Rename to
\* <time_first>-<time_last>.hs, and CreateCatelogueFile, whose result is not
\* looked at either
writeHaystackTrailer(ds, time_first, time_last, nonce, io) ==
    LET data == ds.iname \o <<mem2DiskFileTrailer(ds.last_dict_ofs, time_first, time_last,
                                                  nonce)>>
    IN IF io = "write" THEN [ds EXCEPT !.err = "trailer"]
       ELSE IF io = "rename"
       THEN [ds EXCEPT !.iname = << >>,
                       !.stale = IF @ > DataLen(data) THEN @ ELSE DataLen(data),
                       !.err = "rename"]
       ELSE [iname |-> << >>,
             last_dict_ofs |-> 0,
             stale |-> 0,
             files |-> Append(Others(ds.files, time_first, time_last),
                              Renamed(ds, data, time_first, time_last, io)),
             catalogue |-> CreateCatelogueFile(ds.catalogue, FileName(time_first, time_last),
                                               io # "catalogue"),
             err |-> ""]

\* writeHaystackTrailer: an error of the Trailer or of the rename returns
\* before newHaystack()
WriterTrailer(io) ==
    /\ ~panicked
    /\ writer.pc = "trailer"
    /\ datastore' = writeHaystackTrailer(datastore, writer.time_first, writer.time_last,
                                         aesgcm_nonce, io)
    /\ aesgcm_nonce' = aes_inc_nonce(aesgcm_nonce, 1)
    /\ IF io = "write"
       THEN UNCHANGED <<HaystackRoutines, bales, stacks>>
       ELSE IF io = "rename"
       THEN /\ HaystackRoutines' =
                  [HaystackRoutines EXCEPT !.writer_cur_fp = FALSE, !.writer_prev_ofs = 0]
            /\ UNCHANGED <<bales, stacks>>
       ELSE /\ HaystackRoutines' =
                  newHaystack([HaystackRoutines EXCEPT !.writer_cur_fp = FALSE,
                                                       !.writer_prev_ofs = 0],
                              bales, stacks)
            /\ bales' = newHaybaleB(bales)
            /\ stacks' = newHaybaleS(bales, Append(stacks, EmptyStack), Len(stacks) + 1)
    /\ writer' = IdleWriter
    /\ UNCHANGED <<config, newhaybale_mutex, panicked, searched, ingest, dictVars, codecVars>>

\* haybale_wait_minsize of a configuration under which a bunch of two stalks
\* reaches the threshold
SmallMinsize == 64

\* The configurations: the defaults, and the defaults with a low
\* haybale_wait_minsize
Configs == {DefaultConfig, [DefaultConfig EXCEPT !.haybale_wait_minsize = SmallMinsize]}

Init ==
    /\ tdict = EmptyDict
    /\ tcalls = << >>
    /\ \E cfg \in Configs : StartUp(cfg)

Next ==
    \/ \E flatmap \in RoutineRecords : \E order \in Orders(flatmap) :
          InsertBunchBegin(flatmap, order)
    \/ InsertBunchLock
    \/ InsertTimestamp
    \/ InsertFirst
    \/ InsertKey
    \/ InsertLink
    \/ InsertChain
    \/ \E cmd \in {diskwriter_flush_haybale, diskwriter_flush_haystack} : FlushCall(cmd)
    \/ ShutDown
    \/ SendReceive
    \/ ShutDownReturn
    \/ WriterCommand
    \/ WriterRound
    \/ WriterSort
    \/ WriterWrite
    \/ \E io \in TrailerOutcomes : WriterTrailer(io)

Spec == Init /\ [][Next]_vars

\* C1: under any interleaving of InsertBunch with the steps of diskWriter, a
\* Haybale whose is_sorted_immutable is true never changes again: no stalk is
\* appended, no stalk's value, first_ofs or next_ofs changes, and the flag
\* stays true.
C1_ImmutableNeverChanges ==
    [][\A b \in 1..Len(bales) :
          bales[b].is_sorted_immutable =>
              /\ bales'[b].haystalk = bales[b].haystalk
              /\ bales'[b].is_sorted_immutable]_vars

\* diskWriter ends the work on a flush_haystack command with this step
FlushHaystackDone ==
    /\ writer.pc # "receive"
    /\ writer.cmd = diskwriter_flush_haystack
    /\ writer'.pc = "receive"

\* The Haybales writer_cur_haystack had when the command was received
Flushed ==
    {CurStack.Haybale[i] : i \in 1..(IF writer.pc = "command" THEN Len(CurStack.Haybale)
                                     ELSE writer.n)}

\* A call of the operating system failed in this step of writeHaystackTrailer
IoFailed ==
    /\ writer.pc = "trailer"
    /\ \/ datastore'.err # ""
       \/ ~datastore'.files[Len(datastore'.files)].closed
       \/ Len(datastore'.catalogue) = Len(datastore.catalogue)

\* Dictionary sections of data that a Haybale section follows
PairsIn(data) ==
    {j \in 1..(Len(data) - 1) :
        data[j].section = section_dictionary /\ data[j + 1].section = section_haybale}

\* The step renamed a file that ends with a Trailer and holds a Dictionary and
\* Haybale pair for each of the Haybales bs
Committed(bs) ==
    /\ datastore'.files # datastore.files
    /\ \E f \in {datastore'.files[Len(datastore'.files)]} :
          /\ f.data[Len(f.data)].section = section_trailer
          /\ f.closed
          /\ Cardinality(PairsIn(f.data)) >= Cardinality(bs)

\* After the step writer_cur_haystack is a new Haystack without stalks that has
\* one Haybale, writer_cur_haybale, which is empty and not immutable
FreshHaystack ==
    /\ HaystackRoutines'.writer_cur_haystack # HaystackRoutines.writer_cur_haystack
    /\ \E hs \in {stacks'[HaystackRoutines'.writer_cur_haystack]} :
          /\ hs.memsize = 0
          /\ hs.Haybale = <<HaystackRoutines'.writer_cur_haybale>>
    /\ bales'[HaystackRoutines'.writer_cur_haybale] = EmptyBale

\* C12: when diskWriter has finished a flush_haystack command for a Haystack
\* that holds at least one non-empty Haybale, and no call of the operating
\* system failed, every Haybale of that Haystack that holds stalks is sorted
\* and immutable and has its Dictionary and Haybale pair in the file, the file
\* ends with the Trailer, is closed and renamed, and writer_cur_haystack is a
\* fresh Haystack with one empty writable Haybale; also when the last Haybale
\* of the list is empty and an earlier one is not.
C12_FlushHaystack ==
    [][(/\ FlushHaystackDone
        /\ ~IoFailed
        /\ \E b \in Flushed : bales[b].Memsize > 0)
          => /\ \A b \in Flushed : bales[b].Memsize > 0 => bales'[b].is_sorted_immutable
             /\ Committed({b \in Flushed : bales[b].Memsize > 0})
             /\ FreshHaystack]_vars

\* diskWriter ends the work on a flush_haybale command with this step
FlushHaybaleDone ==
    /\ writer.pc # "receive"
    /\ writer.cmd = diskwriter_flush_haybale
    /\ writer'.pc = "receive"

\* C13: when diskWriter has finished a flush_haybale command that found
\* writer_cur_haybale with a Memsize above 0, that Haybale is sorted and
\* immutable, the open file ends with its Dictionary and Haybale pair, and
\* writer_cur_haybale is another Haybale, empty and not immutable.
C13_FlushHaybale ==
    [][(/\ FlushHaybaleDone
        /\ writer.seen)
          => /\ bales'[HaystackRoutines.writer_cur_haybale].is_sorted_immutable
             /\ HaystackRoutines'.writer_cur_fp
             /\ Len(datastore'.iname) - 1 \in PairsIn(datastore'.iname)
             /\ HaystackRoutines'.writer_cur_haybale # HaystackRoutines.writer_cur_haybale
             /\ bales'[HaystackRoutines'.writer_cur_haybale] = EmptyBale]_vars

\* time_first and time_last in the content of the Trailer that ends data
TrailerTimes(data) ==
    [time_first |-> data[Len(data)].content[2].u, time_last |-> data[Len(data)].content[3].u]

\* The lowest time_first and the highest time_last of the Haybales hbs
BoundsOf(hbs) ==
    [time_first |-> CHOOSE t \in {hb.time_first : hb \in hbs} :
                       \A hb \in hbs : t <= hb.time_first,
     time_last |-> CHOOSE t \in {hb.time_last : hb \in hbs} :
                      \A hb \in hbs : t >= hb.time_last]

\* The Haybales of disk that have bounds: an InsertBunch call has set time_first
WrittenBales == {disk'.Haybale[i] : i \in {j \in 1..Len(disk'.Haybale) :
                                              disk'.Haybale[j].time_first # 0}}

\* The Haybales with bounds that the flush_haystack loop went through
FlushedBales == {bales[b] : b \in {c \in Flushed : bales[c].time_first # 0}}

\* Haystack.Mem2Disk returned a dataset in this step
Mem2DiskDone == ~disk.written /\ disk'.written

\* writeHaystackTrailer renamed the file in this step
RenameDone == writer.pc = "trailer" /\ writer'.pc = "receive" /\ datastore'.err = ""

\* C14: the Trailer that Haystack.Mem2Disk and the flush_haystack of diskWriter
\* write carries the lowest time_first and the highest time_last of the
\* Haybales of the Haystack, and the renamed file and its catalogue file are
\* named with these two numbers.
C14_TrailerTimes ==
    [][/\ (Mem2DiskDone /\ WrittenBales # {})
            => TrailerTimes(disk'.data) = BoundsOf(WrittenBales)
       /\ (RenameDone /\ FlushedBales # {})
            => \E f \in {datastore'.files[Len(datastore'.files)]} :
                  /\ TrailerTimes(f.data) = BoundsOf(FlushedBales)
                  /\ [time_first |-> f.time_first, time_last |-> f.time_last]
                        = BoundsOf(FlushedBales)
                  /\ \/ Len(datastore'.catalogue) = Len(datastore.catalogue)
                     \/ datastore'.catalogue[Len(datastore'.catalogue)]
                           = BoundsOf(FlushedBales)]_vars

\* The renamed files named <time_first>-<time_last>.hs as the catalogue file c is
FilesOf(c) ==
    {j \in 1..Len(datastore.files) :
        /\ datastore.files[j].time_first = c.time_first
        /\ datastore.files[j].time_last = c.time_last}

\* The last bytes of file f are those of a Trailer section
EndsWithTrailer(f) ==
    /\ Len(f.data) > 0
    /\ f.data[Len(f.data)].section = section_trailer
    /\ f.garbage = 0

\* C15: in every state, when the catalogue file <T1>-<T2>.hsc exists, the file
\* <T1>-<T2>.hs exists and ends with its Trailer, and the write of the Trailer,
\* the Close() and the rename of that file have succeeded.
C15_CatalogueImpliesCommitted ==
    \A k \in 1..Len(datastore.catalogue) :
        \E j \in FilesOf(datastore.catalogue[k]) :
            /\ EndsWithTrailer(datastore.files[j])
            /\ datastore.files[j].closed

\* InsertBunch is at the send of FlushHaystack() or FlushHaybale()
InsertBunchSends == ingest.inserting /\ ingest.pc = "send"

\* C16: InsertBunch never waits for diskWriter: when a threshold is reached it
\* hands over the flush command and returns also while diskWriter is working
\* on an earlier command, so the send never has to wait for a step of
\* diskWriter.
C16_InsertNeverWaits == InsertBunchSends => ENABLED SendReceive

\* InsertBunch executes a statement behind the insert of the _timestamp stalk
\* without a panic
BunchStep ==
    /\ ingest.pc \in {"first", "insert", "link", "chain"}
    /\ ingest' # ingest
    /\ ~panicked'

\* C17: whatever steps diskWriter takes during an InsertBunch call, newHaybale()
\* among them, every stalk of the record is appended to the Haybale that got
\* its _timestamp stalk, no stalk of another Haybale is written, and when the
\* call returns every stalk of the chain from the _timestamp stalk has first_ofs
\* at that stalk.
C17_BunchInOneBale ==
    [][BunchStep =>
          /\ \A b \in 1..Len(bales) : b # ingest.home => bales'[b].haystalk = bales[b].haystalk
          /\ ingest.pc = "chain" =>
                \A o \in ChainOf(bales'[ingest.home], ingest.first, MaxStalks) :
                    StalkAt(bales'[ingest.home], o).first_ofs = ingest.first]_vars

\* A statement of an InsertBunch call on a record without _timestamp
NoTimestampStep ==
    /\ ingest.inserting
    /\ Timestamp_key \notin ingest.keys
    /\ ingest' # ingest

\* C18: InsertBunch on a record without the key _timestamp appends no stalk,
\* adds no Dictionary key, leaves time_first, time_last and the memsize of the
\* Haybale and of the Haystack as they are, and sends no flush command.
C18_NoTimestampNoChange ==
    [][NoTimestampStep =>
          /\ bales' = bales
          /\ stacks' = stacks
          /\ ingest'.pc = "idle"
          /\ ingest'.send = << >>
          /\ writer' = writer]_vars

\* InsertBunch has returned for a record without _timestamp, which only this
\* return leaves with the mutex locked, while writer_cur_haybale holds a bunch
\* that is above the threshold of haybale_wait_minsize.
C18_Witness ==
    /\ ingest.pc = "idle"
    /\ newhaybale_mutex
    /\ ~panicked
    /\ Len(bales[HaystackRoutines.writer_cur_haybale].haystalk) >= 2
    /\ config.haybale_wait_minsize = SmallMinsize
    /\ bales[HaystackRoutines.writer_cur_haybale].Memsize >= config.haybale_wait_minsize

\* The _timestamp stalks whose value parses under neither layout of InsertBunch
RejectedStalks ==
    {<<b, i>> \in (1..Len(bales)) \X (1..MaxStalks) :
        /\ i <= Len(bales[b].haystalk)
        /\ bales[b].haystalk[i].dkey = TimestampDkey(b)
        /\ bales[b].haystalk[i].val.valtype = valtype_string
        /\ ~TimeParseOk(bales[b].haystalk[i].val.stringval)}

\* C19: InsertBunch on a record whose _timestamp parses under neither layout
\* skips the record: no Haybale holds a stalk of it, time_first and time_last
\* are those of the accepted records, and the goroutine goes on and takes
\* later records, which a panic ends.
C19_UnparseableSkipped ==
    /\ RejectedStalks = {}
    /\ ~panicked

\* The steps of diskWriter behind the test of a round, named by what they do to
\* diskWriter itself: WriterSort, WriterWrite and WriterTrailer are the only
\* steps that leave these positions, and they can be taken whenever diskWriter
\* is there
WriterMoves ==
    /\ ~panicked
    /\ \/ writer.pc = "sort" /\ writer' = [writer EXCEPT !.pc = "write"]
       \/ writer.pc = "write" /\ writer' = NextRound(writer, bales[WriterBale])
       \/ writer.pc = "trailer" /\ writer' = IdleWriter

\* The Go scheduler lets a goroutine that can run take its next step: diskWriter
\* goes on, a send with diskWriter at its receive is made, and a Wait() whose
\* counter is 0 returns
SpecFair ==
    /\ Init
    /\ [][Next]_vars
    /\ WF_vars(WriterCommand)
    /\ WF_vars(WriterRound)
    /\ WF_writer(WriterMoves)
    /\ WF_vars(SendReceive)
    /\ WF_vars(ShutDownReturn)

\* C20: with diskWriter running, a ShutDown() call returns, and it has returned
\* only when diskWriter has exited after the Done() of the close command; the
\* close command is received after the flush_haystack of ShutDown() and with
\* no command left to send, and diskWriter receives a command only when it has
\* gone through the one before.
C20_ShutDownReturns ==
    /\ ingest.closing ~> ingest.pc = "down"
    /\ [](ingest.pc = "down" => writer.pc = "exited")
    /\ [](writer.cmd = diskwriter_close => ingest.closing /\ ingest.send = << >>)
    /\ [][writer'.cmd # writer.cmd /\ writer'.cmd # diskwriter_nop
             => writer.pc = "receive"]_vars

\* ShutDown() has returned after diskWriter wrote the Haybale of a bunch to the
\* file that the flush_haystack of ShutDown() renamed.
C20_Witness ==
    /\ ingest.pc = "down"
    /\ writer.pc = "exited"
    /\ ingest.sent = 0
    /\ Len(datastore.files) = 1
    /\ PairsIn(datastore.files[1].data) # {}

\* The write of the Trailer or the rename failed in this step of
\* writeHaystackTrailer
FlushFailed ==
    /\ writer.pc = "trailer"
    /\ writer'.pc = "receive"
    /\ datastore'.err # ""

\* The Haybales with stalks that the flush_haystack loop went through
FlushedFull == {b \in Flushed : bales[b].Memsize > 0}

\* C21: when the write of the Trailer or the rename fails, writer_cur_haystack
\* is not replaced and no file is renamed, and a later flush_haystack whose
\* calls of the operating system all succeed renames a file that holds a
\* Dictionary and Haybale pair for every Haybale with stalks of the Haystack,
\* those of the failed flush among them.
C21_FailedFlushRetried ==
    [][/\ FlushFailed
            => /\ HaystackRoutines'.writer_cur_haystack = HaystackRoutines.writer_cur_haystack
               /\ datastore'.files = datastore.files
       /\ (RenameDone /\ ~IoFailed)
            => Cardinality(PairsIn(datastore'.files[Len(datastore'.files)].data))
                  >= Cardinality(FlushedFull)]_vars

\* haystack_wait_maxsize of a configuration under which the second bunch of a
\* Haystack reaches the threshold
SmallMaxsize == 3 * SmallMinsize

\* Configurations with each threshold at 0, at a size that bunches reach, and at
\* its default; config is zero before ConfigureVariables, and config_parse_size
\* stores the size it has read before it compares it with the limits
ThresholdConfigs ==
    {[haystack_wait_maxsize |-> a, haybale_wait_minsize |-> b] :
        a \in {0, SmallMaxsize, DefaultConfig.haystack_wait_maxsize},
        b \in {0, SmallMinsize, DefaultConfig.haybale_wait_minsize}}

InitFlush ==
    /\ tdict = EmptyDict
    /\ tcalls = << >>
    /\ \E cfg \in ThresholdConfigs : StartUp(cfg)

\* InsertBunch calls and diskWriter, which gets its commands from InsertBunch
NextFlush ==
    \/ \E flatmap \in RoutineRecords : \E order \in Orders(flatmap) :
          InsertBunchBegin(flatmap, order)
    \/ InsertBunchLock
    \/ InsertTimestamp
    \/ InsertFirst
    \/ InsertKey
    \/ InsertLink
    \/ InsertChain
    \/ SendReceive
    \/ WriterCommand
    \/ WriterRound
    \/ WriterSort
    \/ WriterWrite
    \/ \E io \in TrailerOutcomes : WriterTrailer(io)

SpecFlush == InitFlush /\ [][NextFlush]_vars

\* InsertBunch goes through its last statements, the Unlock() and the tests of
\* the thresholds, in this step
InsertBunchEnds ==
    /\ ingest.pc = "chain"
    /\ ingest' # ingest
    /\ ~panicked'

\* C22: an InsertBunch call that has inserted its record sends flush_haystack
\* if haystack_wait_maxsize > 0 and the memsize of writer_cur_haystack has
\* reached it, otherwise flush_haybale if haybale_wait_minsize > 0 and the
\* Memsize of writer_cur_haybale has reached it, otherwise nothing; it never
\* sends two commands, and a threshold of 0 never has its command sent.
C22_Thresholds ==
    [][InsertBunchEnds =>
          LET memsize == stacks'[HaystackRoutines'.writer_cur_haystack].memsize
              Memsize == bales'[HaystackRoutines'.writer_cur_haybale].Memsize
          IN /\ ingest'.send =
                   IF config.haystack_wait_maxsize > 0
                        /\ memsize >= config.haystack_wait_maxsize
                   THEN <<diskwriter_flush_haystack>>
                   ELSE IF config.haybale_wait_minsize > 0
                             /\ Memsize >= config.haybale_wait_minsize
                   THEN <<diskwriter_flush_haybale>>
                   ELSE << >>
             /\ ingest'.pc = IF ingest'.send = << >> THEN "idle" ELSE "send"
             /\ config.haystack_wait_maxsize = 0
                   => diskwriter_flush_haystack # Head(ingest'.send \o <<diskwriter_nop>>)
             /\ config.haybale_wait_minsize = 0
                   => diskwriter_flush_haybale # Head(ingest'.send \o <<diskwriter_nop>>)]_vars

\* InsertBunch is at the send of flush_haystack although the Memsize of
\* writer_cur_haybale has reached haybale_wait_minsize as well
C22_Witness ==
    /\ InsertBunchSends
    /\ ingest.send = <<diskwriter_flush_haystack>>
    /\ config.haybale_wait_minsize = SmallMinsize
    /\ bales[HaystackRoutines.writer_cur_haybale].Memsize >= SmallMinsize

\* InsertBunch is between its Lock() and its Unlock(), on a record that has a
\* _timestamp
InFlight == ingest.pc \in {"timestamp", "first", "insert", "link", "chain"}

\* The step replaces writer_cur_haybale or writer_cur_haystack
Swaps ==
    \/ HaystackRoutines'.writer_cur_haybale # HaystackRoutines.writer_cur_haybale
    \/ HaystackRoutines'.writer_cur_haystack # HaystackRoutines.writer_cur_haystack

\* C23: diskWriter replaces writer_cur_haybale and writer_cur_haystack only
\* when it holds newhaybale_mutex, so no step replaces one of them while an
\* InsertBunch call is between its Lock() and its Unlock().
C23_SwapUnderMutex == [][Swaps => ~InFlight]_vars

\* An InsertBunch call appended stalks to Haybale b in this step
InsertedInto(b) ==
    /\ b = HaystackRoutines.writer_cur_haybale
    /\ Len(bales'[b].haystalk) > Len(bales[b].haystalk)
    /\ ~panicked'

\* The stalks that InsertBunch makes of flatmap with the map iteration in
\* order: <<dkey, val>> of the _timestamp stalk, then of the other keys
StalksOfRecord(d, flatmap, order) ==
    LET rest == SelectSeq(order, LAMBDA k : k # Timestamp_key)
    IN [i \in 1..(Len(rest) + 1) |->
           LET k == IF i = 1 THEN Timestamp_key ELSE rest[i - 1]
           IN <<KeyExists(d, k)[1], ParseInsertVal(flatmap[k])>>]

\* The offset the sort gave to the stalk that was at offset ofs
MovedTo(hb, ofs) == CHOOSE j \in 0..(Len(hb.haystalk) - 1) : StalkAt(hb, j).self_ofs = ofs

\* SortBale sorted Haybale b in this step
SortedNow(b) == ~bales[b].is_sorted_immutable /\ bales'[b].is_sorted_immutable

TSepoch == "1970-01-01T00:00:00Z"
TSbefore == "1969-12-31T23:59:59.999999999Z"

\* Records that hold a _timestamp only, at, before and after the epoch
TimeRecords == {Timestamp_key :> t : t \in {TSepoch, TSbefore, TS1}}

NextTimes ==
    \E flatmap \in TimeRecords : \E order \in Orders(flatmap) : InsertBunch(flatmap, order)

SpecTimes == InitLib /\ [][NextTimes]_vars

\* t.UnixNano() of the _timestamp stalks of Haybale hb
BunchTimes(hb) ==
    {UnixNano(hb.haystalk[i].val.stringval) :
        i \in {j \in 1..Len(hb.haystalk) :
                  /\ hb.haystalk[j].first_ofs = j - 1
                  /\ hb.haystalk[j].val.valtype = valtype_string
                  /\ TimeParseOk(hb.haystalk[j].val.stringval)}}

\* C25: after any sequence of InsertBunch calls into a Haybale, time_first is
\* the lowest and time_last the highest UnixNano() of the _timestamp values
\* inserted, so time_first <= time_last and every timestamp lies between them,
\* also for the epoch (0) and for times before it.
C25_TimeBounds ==
    \A b \in 1..Len(bales) :
        BunchTimes(bales[b]) # {} =>
            /\ bales[b].time_first <= bales[b].time_last
            /\ bales[b].time_first \in BunchTimes(bales[b])
            /\ bales[b].time_last \in BunchTimes(bales[b])
            /\ \A t \in BunchTimes(bales[b]) :
                  bales[b].time_first <= t /\ t <= bales[b].time_last

\* The Haybale sections of a file, in the order written
HaybaleSections(data) == SelectSeq(data, LAMBDA sec : sec.section = section_haybale)

\* The stalks i..num of the content of a Haybale section, read from field pos
\* on: the numbers of those whose value is the field len_dup alone, and the
\* field after the last stalk
RECURSIVE MarkersIn(_, _, _, _)
MarkersIn(content, pos, i, num) ==
    IF i > num \/ pos + 4 > Len(content) THEN [markers |-> {}, end |-> pos]
    ELSE LET string == content[pos + 1].u = valtype_string
             marker == string /\ content[pos + 4].u = len_dup
             rest == MarkersIn(content,
                               pos + 5 + (IF string /\ ~marker /\ content[pos + 4].u > 0
                                          THEN 1 ELSE 0),
                               i + 1, num)
         IN [markers |-> (IF marker THEN {i} ELSE {}) \cup rest.markers, end |-> rest.end]

\* The string stalks before stalk i of hs
StringsBefore(hs, i) == {j \in 1..(i - 1) : hs[j].val.valtype = valtype_string}

\* The closest string stalk before stalk i of hs
ClosestString(hs, i) == CHOOSE j \in StringsBefore(hs, i) : \A m \in StringsBefore(hs, i) : m <= j

\* Stalk i of hs is a string stalk with the value of the closest one before it
RepeatsString(hs, i) ==
    /\ hs[i].val.valtype = valtype_string
    /\ StringsBefore(hs, i) # {}
    /\ hs[ClosestString(hs, i)].val.stringval = hs[i].val.stringval

\* The markers of the section written for Haybale number i of the file
WrittenMarkers(i) ==
    MarkersIn(HaybaleSections(disk.data)[i].content, 4, 1, Len(disk.Haybale[i].haystalk))

\* C26: in a serialised Haybale a string stalk is written as the marker
\* len_dup with no bytes exactly when its value equals that of the closest
\* string stalk before it in the sorted order, the first string stalk of a
\* section is never a marker, and decoding the file gives every stalk, the
\* marker stalks too, its original value.
C26_DedupLossless ==
    /\ disk.written =>
          /\ Len(HaybaleSections(disk.data)) = Len(disk.Haybale)
          /\ \A i \in 1..Len(disk.Haybale) :
                LET hs == disk.Haybale[i].haystalk
                    written == WrittenMarkers(i)
                IN /\ written.end = Len(HaybaleSections(disk.data)[i].content) + 1
                   /\ \A k \in 1..Len(hs) :
                         /\ k \in written.markers <=> RepeatsString(hs, k)
                         /\ (hs[k].val.valtype = valtype_string /\ StringsBefore(hs, k) = {})
                               => k \notin written.markers
    /\ ReadBack =>
          /\ reader.err = ""
          /\ ~reader.panic
          /\ Len(reader.hs.Haybale) = Len(disk.Haybale)
          /\ \A i \in 1..Len(disk.Haybale) :
                /\ Len(reader.hs.Haybale[i].haystalk) = Len(disk.Haybale[i].haystalk)
                /\ \A k \in 1..Len(disk.Haybale[i].haystalk) :
                      reader.hs.Haybale[i].haystalk[k].val = disk.Haybale[i].haystalk[k].val

\* A file read back whose Haybale holds a marker stalk right after a stalk
\* that is not a string, decoded to its value, and a string stalk written in
\* full after another string stalk
C26_Witness ==
    /\ ReadBack
    /\ \E i \in 1..Len(disk.Haybale) :
          LET hs == disk.Haybale[i].haystalk
          IN /\ \E k \in WrittenMarkers(i).markers :
                   /\ hs[k - 1].val.valtype # valtype_string
                   /\ reader.hs.Haybale[i].haystalk[k].val.stringval = hs[k].val.stringval
             /\ \E n \in 1..Len(hs) :
                   /\ hs[n].val.valtype = valtype_string
                   /\ StringsBefore(hs, n) # {}
                   /\ n \notin WrittenMarkers(i).markers

\* The entries of the content of a Dictionary section from field pos on, each
\* a dkey, the length of the key and the key
RECURSIVE EntriesIn(_, _)
EntriesIn(content, pos) ==
    IF pos + 1 > Len(content) THEN 0
    ELSE 1 + EntriesIn(content, pos + 2 + StringFields(content[pos + 1].u))

\* The Dictionary sections of a file, in the order written
DictionarySections(data) == SelectSeq(data, LAMBDA sec : sec.section = section_dictionary)

\* C27: in every serialised Dictionary section the field num_dkeys is the
\* number of entries that follow it, no entry is dirty after the
\* serialisation, and the reader of the file sets exactly the slots written,
\* each to the key written.
C27_DictionaryCount ==
    /\ disk.written =>
          /\ \A i \in 1..Len(DictionarySections(disk.data)) :
                LET content == DictionarySections(disk.data)[i].content
                IN getUintFromData(content, 2) = EntriesIn(content, 3)
          /\ disk.Dict.dirty = {}
    /\ ReadBack => (reader.err = "" /\ ~reader.panic /\ reader.hs.Dict.dkey = disk.Dict.dkey)

\* Sections sealed one after the other that are followed
MaxSealed == 4

\* Nonces init() can draw: the low k bytes at 255, so that the next increment
\* carries into byte k + 1, or, for k = 12, wraps to zero
NonceStarts ==
    {[i \in 1..aesgcm_nonce_byte_len |-> IF i <= k THEN 255 ELSE 0] :
        k \in 0..aesgcm_nonce_byte_len} \cup {NonceStart}

InitNonce ==
    /\ tdict = EmptyDict
    /\ tcalls = << >>
    /\ bales = newHaybaleB(<< >>)
    /\ stacks = newHaybaleS(<< >>, <<EmptyStack>>, 1)
    /\ HaystackRoutines = [writer_cur_haystack |-> 1, writer_cur_haybale |-> 1,
                           writer_cur_fp |-> FALSE, writer_prev_ofs |-> 0]
    /\ ingest = IdleIngest
    /\ writer = IdleWriter
    /\ datastore = NoFiles
    /\ aesgcm_nonce \in NonceStarts
    /\ config = DefaultConfig
    /\ newhaybale_mutex = FALSE
    /\ panicked = FALSE
    /\ searched = NoSearch
    /\ disk = NoFile
    /\ reader = NoRead

\* mem2DiskFileHeader(): the section is not encrypted
HeaderCall ==
    /\ Len(disk.data) < MaxSealed
    /\ disk' = [disk EXCEPT !.data = Append(@, mem2DiskFileHeader)]
    /\ UNCHANGED <<bales, stacks, HaystackRoutines, config, newhaybale_mutex, panicked,
                   searched, reader, dictVars, aesgcm_nonce, routineVars>>

\* One call of mem2DiskAES256GCMblock, made for a Trailer, a Dictionary or a
\* Haybale: Seal with aesgcm_nonce, then aes_inc_nonce()
SealCall ==
    /\ Len(disk.data) < MaxSealed
    /\ \E sec \in {mem2DiskFileTrailer(0, 0, 0, aesgcm_nonce),
                    DictionaryMem2Disk(CurStack.Dict, 0, aesgcm_nonce).data,
                    HaybaleMem2Disk(SortBale(bales[1]), aesgcm_nonce)} :
          disk' = [disk EXCEPT !.data = Append(@, sec)]
    /\ aesgcm_nonce' = aes_inc_nonce(aesgcm_nonce, 1)
    /\ UNCHANGED <<bales, stacks, HaystackRoutines, config, newhaybale_mutex, panicked,
                   searched, reader, dictVars, routineVars>>

NextNonce == HeaderCall \/ SealCall

SpecNonce == InitNonce /\ [][NextNonce]_vars

\* The encrypted sections of a file, in the order sealed
EncryptedSections(data) == SelectSeq(data, LAMBDA sec : sec.nonce # << >>)

\* n2 is n1 + 1 as a number of 12 bytes, lowest byte first, modulo 2^96
IncWithCarry(n1, n2) ==
    \E k \in 1..(aesgcm_nonce_byte_len + 1) :
        /\ \A j \in 1..(k - 1) : n1[j] = 255 /\ n2[j] = 0
        /\ k <= aesgcm_nonce_byte_len =>
              /\ n1[k] < 255
              /\ n2[k] = n1[k] + 1
              /\ \A j \in (k + 1)..aesgcm_nonce_byte_len : n2[j] = n1[j]

\* C28: no two encrypted sections are sealed with the same nonce; each is
\* sealed with the counter as it is and the counter is then incremented with
\* carry across all 12 bytes, and the Header, which is not encrypted, takes no
\* nonce.
C28_NoncesDistinct ==
    LET sealed == EncryptedSections(disk.data)
    IN /\ \A i, j \in 1..Len(sealed) : i # j => sealed[i].nonce # sealed[j].nonce
       /\ \A i \in 1..(Len(sealed) - 1) : IncWithCarry(sealed[i].nonce, sealed[i + 1].nonce)
       /\ Len(sealed) >= 1 => IncWithCarry(sealed[Len(sealed)].nonce, aesgcm_nonce)
       /\ \A i \in 1..Len(disk.data) :
             disk.data[i].section = section_header <=> disk.data[i].nonce = << >>

\* Two sections sealed with a Header written between them, the first with
\* the nonce of 12 bytes 255, the second with the nonce of 12 bytes 0
C28_Witness ==
    /\ Len(disk.data) = 3
    /\ disk.data[1].nonce = [i \in 1..aesgcm_nonce_byte_len |-> 255]
    /\ disk.data[2].section = section_header
    /\ disk.data[3].nonce = [i \in 1..aesgcm_nonce_byte_len |-> 0]

\* newHaystack() has released writer_cur_haystack in this step, after a rename
\* that succeeded, with no rename failed since the Haystack was made
Released ==
    /\ writer.pc = "trailer"
    /\ HaystackRoutines'.writer_cur_haystack # HaystackRoutines.writer_cur_haystack
    /\ ~IoFailed
    /\ datastore.stale = 0

\* File f holds the Haybale section of the stalks Haybale hb has
HoldsBale(f, hb) ==
    \E j \in 1..Len(f.data) :
        /\ f.data[j].section = section_haybale
        /\ f.data[j].content = HaybaleMem2Disk(SortBale(hb), NonceStart).content

\* The Haybales of writer_cur_haystack that hold stalks
Inserted == {b \in {CurStack.Haybale[i] : i \in 1..Len(CurStack.Haybale)} :
                Len(bales[b].haystalk) > 0}

\* C29: no accepted bunch is lost under any interleaving of InsertBunch with
\* diskWriter: every Haybale that holds stalks is in the renamed file when
\* its Haystack is released, also the Haybale newHaybale() made during the
\* flush_haystack, no renamed file is replaced, and when ShutDown() returns
\* after a last flush that succeeded no stalk is left in writer_cur_haystack.
C29_NoBunchLost ==
    [][/\ Released =>
             \A b \in Inserted : HoldsBale(datastore'.files[Len(datastore'.files)], bales[b])
       /\ Released =>
             \A j \in 1..Len(datastore.files) :
                 \E m \in 1..Len(datastore'.files) : datastore'.files[m] = datastore.files[j]
       /\ (ingest'.pc = "down" /\ ingest.pc # "down" /\ datastore.err = ""
              /\ datastore.stale = 0)
             => Inserted = {}]_vars

\* C30: whenever no InsertBunch call is in progress newhaybale_mutex is not
\* held, every return of InsertBunch having unlocked what the call locked, so
\* that an InsertBunch call that has come to its Lock() can take the mutex.
C30_MutexReleased ==
    /\ (~ingest.inserting /\ ~panicked) => ~newhaybale_mutex
    /\ (ingest.pc = "lock" /\ ~panicked) => ENABLED InsertBunchLock

====
